---- MODULE Spec2Model ----
(***************************************************************************)
(* UBI2 PEB Map (PMAP) sub-system: the in-memory table that gives, for     *)
(* every physical eraseblock (PEB), the volume and logical eraseblock      *)
(* (LEB) it is allocated to, whether it is in use and whether it is bad.   *)
(* Every operator below is a translation of one function of the PMAP       *)
(* source; every action is one call of a mutating PMAP function.           *)
(***************************************************************************)
EXTENDS Integers, Sequences, FiniteSets, TLC

(***************************************************************************)
(* Bounds of the model.                                                    *)
(***************************************************************************)
\* ubi->peb_count of the modelled device
PebCount == 5
\* UBI_LAYOUT_VOLUME_RESERVED_EBS (set in ubi.h), scaled to the device
UBI_LAYOUT_VOLUME_RESERVED_EBS == 1
\* number of PMAP calls in one behaviour of Spec
MaxCalls == 3
\* number of PMAP calls in one behaviour of SpecNoAlloc
MaxOps == 6
\* number of attaches, commits and detaches in one behaviour of SpecLayout
MaxLayoutOps == 3
\* number of bytes of the PPO page
PpoBytes == 3
\* number of PEBs the list of a LEB can run through
ChainPebCount == 3
\* number of updates of the list started in one behaviour of SpecChain
MaxChainOps == 3

\* the user volume ids of the model
UserVolIds == {0, 1}
\* the reserved_pebs a caller asks ubi_pmap_resize_volume for: up to one more
\* than the PEBs a user volume can ever get
ReservedPebs == 0 .. (PebCount - UBI_LAYOUT_VOLUME_RESERVED_EBS + 1)
\* the (first LEB, number of blocks) runs a caller passes to
\* ubi_pmap_allocate_vol_pebs: the runs of LEBs of a volume of two LEBs
AllocRuns == {[leb |-> 0, blocks |-> 1], [leb |-> 0, blocks |-> 2],
              [leb |-> 1, blocks |-> 1]}

(***************************************************************************)
(* Program constants.                                                      *)
(***************************************************************************)
\* The id of the layout volume is an internal volume id, above every user
\* volume id; all the PMAP code does with it is compare it with a vol_id.
UBI_LAYOUT_VOLUME_ID == 2
EINVAL == 22
ENOMEM == 12
ENOSPC == 28
INT_MAX == 2147483647

\* The layout volume holds two copies of the tables (the arrays of
\* process_lvol have two elements); a copy is the LEB of the volume table and
\* the LEB after it, which holds the PEB table (create_vtbl writes leb and
\* leb + 1); the layout volume has the LEBs of both copies.
UBI_LAYOUT_VOLUME_COPIES == 2
UBI_LAYOUT_VOLUME_EBS_PER_COPY == 2
UBI_LAYOUT_VOLUME_EBS ==
    UBI_LAYOUT_VOLUME_COPIES * UBI_LAYOUT_VOLUME_EBS_PER_COPY

PebIds == 0 .. (PebCount - 1)
VolIds == UserVolIds \cup {UBI_LAYOUT_VOLUME_ID}

\* struct ubi_pmap after memset(pmap, 0, sizeof(struct ubi_pmap))
ZeroPmap == [vol_id |-> 0, lnum |-> 0, inuse |-> FALSE, bad |-> FALSE]

VARIABLES
    peb_map,    \* ubi->peb_map: one struct ubi_pmap per PEB
    call,       \* the PMAP function called last and its arguments
    ret,        \* the value that call returned
    old_map,    \* peb_map as it was when that call was made
    pc,         \* "ready", or "spin" when the call never returned
    budget,     \* number of calls the caller still makes
    flash,      \* contents of the LEBs of the layout volume
    ubi_vtbl,   \* ubi->vtbl: the volume table in RAM
    ubi_ptbl,   \* ubi->ptbl: the PEB table in RAM
    lpc,        \* "off" (not attached, RAM lost) or "attached"
    lcall,      \* the layout operation made last, with the flash
                \* operations it issued
    lret,       \* the value that operation returned
    old_flash,  \* flash as it was when that operation started
    gen,        \* number of the next table contents
    lbudget,    \* number of layout operations still made
    lvol_tables,\* the records of the tables an attach finds in copy 0 of
                \* the layout volume, then the records it took
    bad_blocks, \* the PEBs ubi_io_is_bad reports bad
    inuse_in_mask,  \* whether the bits of UBI_PEB_INUSE lie within
                    \* UBI_PEB_FREE | UBI_PEB_BAD (the values are set in
                    \* ubi.h)
    threads,    \* for each of two callers that run at the same time: the
                \* PMAP call it is in, its local variables and the
                \* statement it is at
    ppo,        \* the PPO page of a PEB, the operation made on it last,
                \* and a byte read from a PPO page with its categories
    chain       \* the LLP headers of the PEBs of the list of one LEB, the
                \* update of a pair of headers in progress, and what the
                \* last read of the list found

pvars == <<peb_map, call, ret, old_map, pc, budget>>
lvars == <<flash, ubi_vtbl, ubi_ptbl, lpc, lcall, lret, old_flash, gen,
           lbudget>>
ovars == <<lvol_tables, bad_blocks, inuse_in_mask, threads, ppo, chain>>
vars == <<pvars, lvars, ovars>>

(***************************************************************************)
(* ubi_pmap_vol_reserved_area                                              *)
(***************************************************************************)
ubi_pmap_vol_reserved_area(vol_id) ==
    IF vol_id = UBI_LAYOUT_VOLUME_ID
    THEN [first_peb |-> 0, last_peb |-> UBI_LAYOUT_VOLUME_RESERVED_EBS - 1]
    ELSE [first_peb |-> UBI_LAYOUT_VOLUME_RESERVED_EBS,
          last_peb |-> PebCount - 1]

AreaOf(vol_id) ==
    ubi_pmap_vol_reserved_area(vol_id).first_peb ..
        ubi_pmap_vol_reserved_area(vol_id).last_peb

Min(S) == CHOOSE x \in S : \A y \in S : x <= y

(***************************************************************************)
(* ubi_pmap_vol_peb_count                                                  *)
(***************************************************************************)
ubi_pmap_vol_peb_count(map, vol_id) ==
    Cardinality({pnum \in AreaOf(vol_id) :
        /\ map[pnum].vol_id = vol_id
        /\ map[pnum].inuse
        /\ ~map[pnum].bad})

(***************************************************************************)
(* ubi_pmap_lookup_pnum: the first PEB of the volume's area, in ascending  *)
(* order, that is in use, not bad and holds (vol_id, lnum); -1 if none.    *)
(***************************************************************************)
ubi_pmap_lookup_pnum(map, vol_id, lnum) ==
    LET hits == {pnum \in AreaOf(vol_id) :
                    /\ map[pnum].vol_id = vol_id
                    /\ map[pnum].lnum = lnum
                    /\ map[pnum].inuse
                    /\ ~map[pnum].bad}
    IN IF hits = {} THEN -1 ELSE Min(hits)

(***************************************************************************)
(* ubi_pmap_extract_vol_pebs: the calls of vol_pebs_cb, in order, as the   *)
(* sequence of their arguments.  block_first_idx is -1 while               *)
(* block_first_pmap is NULL.  The loop ends at the last PEB of the device  *)
(* and the function returns: the block open at that point is not reported. *)
(***************************************************************************)
RECURSIVE ExtractWalk(_, _, _, _)
ExtractWalk(map, i, block_first_idx, cbs) ==
    IF i >= PebCount
    THEN cbs
    ELSE IF block_first_idx = -1
    THEN ExtractWalk(map, i + 1, IF map[i].inuse THEN i ELSE -1, cbs)
    ELSE IF \/ ~map[i].inuse
            \/ map[i].vol_id # map[block_first_idx].vol_id
            \/ map[i].bad # map[block_first_idx].bad
            \/ map[i].lnum # map[block_first_idx].lnum + i - block_first_idx
    THEN ExtractWalk(map, i + 1, IF map[i].inuse THEN i ELSE -1,
                     Append(cbs, [vol_id |-> map[block_first_idx].vol_id,
                                  peb |-> block_first_idx,
                                  leb |-> map[block_first_idx].lnum,
                                  blocks |-> i - block_first_idx,
                                  bad |-> map[block_first_idx].bad]))
    ELSE ExtractWalk(map, i + 1, block_first_idx, cbs)

ubi_pmap_extract_vol_pebs(map) == ExtractWalk(map, 0, -1, <<>>)

(***************************************************************************)
(* ubi_pmap_allocate_vol_pebs                                              *)
(***************************************************************************)
\* ubi_pmap_allocate_vol_pebs with the "already allocated" test made inside
\* the allocating loop: the blocks before the first allocated one are written
ubi_pmap_allocate_vol_pebs_CheckWhileWriting(map, vol_id, peb, leb, blocks, bad) ==
    LET area == ubi_pmap_vol_reserved_area(vol_id)
        taken == {i \in 0 .. (blocks - 1) :
                     peb + i \in PebIds /\ map[peb + i].vol_id = vol_id
                                        /\ map[peb + i].inuse}
        stop == IF taken = {} THEN blocks ELSE Min(taken)
    IN IF peb < area.first_peb \/ (peb + blocks) > (area.last_peb + 1)
       THEN [map |-> map, ret |-> -EINVAL]
       ELSE [map |-> [pnum \in PebIds |->
                        IF pnum \in peb .. (peb + stop - 1)
                        THEN [vol_id |-> vol_id,
                              lnum |-> leb + (pnum - peb),
                              inuse |-> ~bad,
                              bad |-> bad]
                        ELSE map[pnum]],
             ret |-> IF taken = {} THEN 0 ELSE -EINVAL]

ubi_pmap_allocate_vol_pebs(map, vol_id, peb, leb, blocks, bad) ==
    LET area == ubi_pmap_vol_reserved_area(vol_id)
    IN IF peb < area.first_peb \/ (peb + blocks) > (area.last_peb + 1)
       THEN [map |-> map, ret |-> -EINVAL]
       ELSE IF \E i \in 0 .. (blocks - 1) :
                   map[peb + i].vol_id = vol_id /\ map[peb + i].inuse
       THEN [map |-> map, ret |-> -EINVAL]
       ELSE [map |-> [pnum \in PebIds |->
                        IF pnum \in peb .. (peb + blocks - 1)
                        THEN [vol_id |-> vol_id,
                              lnum |-> leb + (pnum - peb),
                              inuse |-> ~bad,
                              bad |-> bad]
                        ELSE map[pnum]],
             ret |-> 0]

(***************************************************************************)
(* ubi_pmap_resize_volume                                                  *)
(***************************************************************************)
\* ResizeGrow without the !pmap->bad test of the "add more" loop
RECURSIVE ResizeGrow_TakesBad(_, _, _, _, _, _)
ResizeGrow_TakesBad(map, vol_id, reserved_pebs, pnum, last_peb, lnum) ==
    IF pnum > last_peb
    THEN map
    ELSE IF ~map[pnum].inuse
    THEN LET m2 == [map EXCEPT ![pnum] = [vol_id |-> vol_id, lnum |-> lnum,
                                          inuse |-> TRUE, bad |-> @.bad]]
         IN IF lnum + 1 = reserved_pebs
            THEN m2
            ELSE ResizeGrow_TakesBad(m2, vol_id, reserved_pebs, pnum + 1,
                                     last_peb, lnum + 1)
    ELSE ResizeGrow_TakesBad(map, vol_id, reserved_pebs, pnum + 1, last_peb,
                             lnum)

\* ResizeGrow that gives every new PEB the LEB number counted at entry (the
\* lnum++ of the "add more" loop is lost)
RECURSIVE ResizeGrow_SameLnum(_, _, _, _, _, _, _)
ResizeGrow_SameLnum(map, vol_id, reserved_pebs, pnum, last_peb, lnum, added) ==
    IF pnum > last_peb
    THEN map
    ELSE IF ~map[pnum].inuse /\ ~map[pnum].bad
    THEN LET m2 == [map EXCEPT ![pnum] = [vol_id |-> vol_id, lnum |-> lnum,
                                          inuse |-> TRUE, bad |-> @.bad]]
         IN IF lnum + added + 1 = reserved_pebs
            THEN m2
            ELSE ResizeGrow_SameLnum(m2, vol_id, reserved_pebs, pnum + 1,
                                     last_peb, lnum, added + 1)
    ELSE ResizeGrow_SameLnum(map, vol_id, reserved_pebs, pnum + 1, last_peb,
                             lnum, added)

ResizeGrow_LnumStuck(map, vol_id, reserved_pebs, pnum, last_peb, lnum) ==
    ResizeGrow_SameLnum(map, vol_id, reserved_pebs, pnum, last_peb, lnum, 0)

\* the "add more" loop, from pnum on, lnum PEBs counted so far
RECURSIVE ResizeGrow(_, _, _, _, _, _)
ResizeGrow(map, vol_id, reserved_pebs, pnum, last_peb, lnum) ==
    IF pnum > last_peb
    THEN map
    ELSE IF ~map[pnum].inuse /\ ~map[pnum].bad
    THEN LET m2 == [map EXCEPT ![pnum] = [vol_id |-> vol_id, lnum |-> lnum,
                                          inuse |-> TRUE, bad |-> @.bad]]
         IN IF lnum + 1 = reserved_pebs
            THEN m2
            ELSE ResizeGrow(m2, vol_id, reserved_pebs, pnum + 1, last_peb,
                            lnum + 1)
    ELSE ResizeGrow(map, vol_id, reserved_pebs, pnum + 1, last_peb, lnum)

\* ResizeShrink that removes the PEBs of the volume as the scan meets them,
\* whatever LEB they hold (the pmap->lnum == lnum - 1 test is lost)
RECURSIVE ResizeShrink_AnyLnum(_, _, _, _, _, _)
ResizeShrink_AnyLnum(map, vol_id, reserved_pebs, pnum, lnum, idle) ==
    LET area == ubi_pmap_vol_reserved_area(vol_id)
        next == IF pnum - 1 < area.first_peb THEN area.last_peb ELSE pnum - 1
    IN IF idle > area.last_peb - area.first_peb + 1
       THEN [map |-> map, spin |-> TRUE]
       ELSE IF /\ map[pnum].vol_id = vol_id
               /\ map[pnum].inuse
               /\ ~map[pnum].bad
       THEN LET m2 == [map EXCEPT ![pnum].inuse = FALSE]
            IN IF lnum - 1 = reserved_pebs
               THEN [map |-> m2, spin |-> FALSE]
               ELSE ResizeShrink_AnyLnum(m2, vol_id, reserved_pebs, next,
                                         lnum - 1, 0)
       ELSE ResizeShrink_AnyLnum(map, vol_id, reserved_pebs, next, lnum,
                                 idle + 1)

\* the "remove blocks from the logical end" loop: the scan is at pnum, lnum
\* PEBs are still counted, idle is the number of PEBs visited since the last
\* removal.  The loop has no exit but the break: once it has visited every
\* PEB of the area without a match it visits them again for ever.
RECURSIVE ResizeShrink(_, _, _, _, _, _)
ResizeShrink(map, vol_id, reserved_pebs, pnum, lnum, idle) ==
    LET area == ubi_pmap_vol_reserved_area(vol_id)
        next == IF pnum - 1 < area.first_peb THEN area.last_peb ELSE pnum - 1
    IN IF idle > area.last_peb - area.first_peb + 1
       THEN [map |-> map, spin |-> TRUE]
       ELSE IF /\ map[pnum].vol_id = vol_id
               /\ map[pnum].lnum = lnum - 1
               /\ map[pnum].inuse
               /\ ~map[pnum].bad
       THEN LET m2 == [map EXCEPT ![pnum].inuse = FALSE]
            IN IF lnum - 1 = reserved_pebs
               THEN [map |-> m2, spin |-> FALSE]
               ELSE ResizeShrink(m2, vol_id, reserved_pebs, next, lnum - 1, 0)
       ELSE ResizeShrink(map, vol_id, reserved_pebs, next, lnum, idle + 1)

\* ubi_pmap_resize_volume whose delete loop clears every PEB of the area (the
\* pmap->vol_id == vol_id test is lost)
ubi_pmap_resize_volume_ClearsArea(map, vol_id, reserved_pebs) ==
    LET area == ubi_pmap_vol_reserved_area(vol_id)
        count == ubi_pmap_vol_peb_count(map, vol_id)
    IN IF reserved_pebs = 0
       THEN [map |-> [pnum \in PebIds |->
                        IF pnum \in AreaOf(vol_id)
                        THEN ZeroPmap
                        ELSE map[pnum]],
             ret |-> 0, spin |-> FALSE]
       ELSE IF count < reserved_pebs
       THEN [map |-> ResizeGrow(map, vol_id, reserved_pebs, area.first_peb,
                                area.last_peb, count),
             ret |-> 0, spin |-> FALSE]
       ELSE IF count > reserved_pebs
       THEN LET r == ResizeShrink(map, vol_id, reserved_pebs, area.last_peb,
                                  count, 0)
            IN [map |-> r.map, ret |-> 0, spin |-> r.spin]
       ELSE [map |-> map, ret |-> 0, spin |-> FALSE]

ubi_pmap_resize_volume(map, vol_id, reserved_pebs) ==
    LET area == ubi_pmap_vol_reserved_area(vol_id)
        count == ubi_pmap_vol_peb_count(map, vol_id)
    IN IF reserved_pebs = 0
       THEN [map |-> [pnum \in PebIds |->
                        IF pnum \in AreaOf(vol_id) /\ map[pnum].vol_id = vol_id
                        THEN ZeroPmap
                        ELSE map[pnum]],
             ret |-> 0, spin |-> FALSE]
       ELSE IF count < reserved_pebs
       THEN [map |-> ResizeGrow(map, vol_id, reserved_pebs, area.first_peb,
                                area.last_peb, count),
             ret |-> 0, spin |-> FALSE]
       ELSE IF count > reserved_pebs
       THEN LET r == ResizeShrink(map, vol_id, reserved_pebs, area.last_peb,
                                  count, 0)
            IN [map |-> r.map, ret |-> 0, spin |-> r.spin]
       ELSE [map |-> map, ret |-> 0, spin |-> FALSE]

(***************************************************************************)
(* ubi_pmap_markbad_replace                                                *)
(***************************************************************************)
\* ubi_pmap_markbad_replace that looks for a replacement for every PEB that
\* is not bad yet (the pmap->inuse test of need_replacment is lost)
ubi_pmap_markbad_replace_ReplacesFree(map, pnum) ==
    LET need_replacment == ~map[pnum].bad
        marked == [map EXCEPT ![pnum].bad = TRUE, ![pnum].inuse = FALSE]
        free == {r \in AreaOf(map[pnum].vol_id) :
                    ~marked[r].inuse /\ ~marked[r].bad}
    IN IF need_replacment
       THEN IF free # {}
            THEN [map |-> [marked EXCEPT ![Min(free)] =
                              [vol_id |-> map[pnum].vol_id,
                               lnum |-> map[pnum].lnum,
                               inuse |-> TRUE,
                               bad |-> @.bad]],
                  ret |-> Min(free)]
            ELSE [map |-> marked, ret |-> -ENOMEM]
       ELSE [map |-> marked, ret |-> pnum]

\* ubi_pmap_markbad_replace that sets bad and leaves inuse as it is (the
\* pmap->inuse = 0 is lost, as in the earlier draft of the function)
ubi_pmap_markbad_replace_KeepsInuse(map, pnum) ==
    LET need_replacment == map[pnum].inuse /\ ~map[pnum].bad
        marked == [map EXCEPT ![pnum].bad = TRUE]
        free == {r \in AreaOf(map[pnum].vol_id) :
                    ~marked[r].inuse /\ ~marked[r].bad}
    IN IF need_replacment
       THEN IF free # {}
            THEN [map |-> [marked EXCEPT ![Min(free)] =
                              [vol_id |-> map[pnum].vol_id,
                               lnum |-> map[pnum].lnum,
                               inuse |-> TRUE,
                               bad |-> @.bad]],
                  ret |-> Min(free)]
            ELSE [map |-> marked, ret |-> -ENOMEM]
       ELSE [map |-> marked, ret |-> pnum]

\* ubi_pmap_markbad_replace that searches the whole device for a replacement
\* (as the earlier draft of the function does)
ubi_pmap_markbad_replace_AnyArea(map, pnum) ==
    LET need_replacment == map[pnum].inuse /\ ~map[pnum].bad
        marked == [map EXCEPT ![pnum].bad = TRUE, ![pnum].inuse = FALSE]
        free == {r \in PebIds : ~marked[r].inuse /\ ~marked[r].bad}
    IN IF need_replacment
       THEN IF free # {}
            THEN [map |-> [marked EXCEPT ![Min(free)] =
                              [vol_id |-> map[pnum].vol_id,
                               lnum |-> map[pnum].lnum,
                               inuse |-> TRUE,
                               bad |-> @.bad]],
                  ret |-> Min(free)]
            ELSE [map |-> marked, ret |-> -ENOMEM]
       ELSE [map |-> marked, ret |-> pnum]

\* ubi_pmap_markbad_replace that returns pnum when the search finds nothing
\* (the final return -ENOMEM replaced by return pnum)
ubi_pmap_markbad_replace_NoError(map, pnum) ==
    LET need_replacment == map[pnum].inuse /\ ~map[pnum].bad
        marked == [map EXCEPT ![pnum].bad = TRUE, ![pnum].inuse = FALSE]
        free == {r \in AreaOf(map[pnum].vol_id) :
                    ~marked[r].inuse /\ ~marked[r].bad}
    IN IF need_replacment
       THEN IF free # {}
            THEN [map |-> [marked EXCEPT ![Min(free)] =
                              [vol_id |-> map[pnum].vol_id,
                               lnum |-> map[pnum].lnum,
                               inuse |-> TRUE,
                               bad |-> @.bad]],
                  ret |-> Min(free)]
            ELSE [map |-> marked, ret |-> pnum]
       ELSE [map |-> marked, ret |-> pnum]

ubi_pmap_markbad_replace(map, pnum) ==
    LET need_replacment == map[pnum].inuse /\ ~map[pnum].bad
        marked == [map EXCEPT ![pnum].bad = TRUE, ![pnum].inuse = FALSE]
        free == {r \in AreaOf(map[pnum].vol_id) :
                    ~marked[r].inuse /\ ~marked[r].bad}
    IN IF need_replacment
       THEN IF free # {}
            THEN [map |-> [marked EXCEPT ![Min(free)] =
                              [vol_id |-> map[pnum].vol_id,
                               lnum |-> map[pnum].lnum,
                               inuse |-> TRUE,
                               bad |-> @.bad]],
                  ret |-> Min(free)]
            ELSE [map |-> marked, ret |-> -ENOMEM]
       ELSE [map |-> marked, ret |-> pnum]

(***************************************************************************)
(* The layout volume on flash.  A LEB holds an image: the image of a       *)
(* volume table or of a PEB table (kind "vtbl" or "ptbl"; gen tells the    *)
(* contents of two tables apart; sane is FALSE when the records have the   *)
(* right CRC and contents vtbl_check rejects), or no table at all: the LEB *)
(* is unmapped ("erased") or a write to it was cut by a power loss         *)
(* ("torn").  "NULL" is a buffer process_lvol has not allocated.           *)
(***************************************************************************)
Image(kind, g, sane) == [kind |-> kind, gen |-> g, sane |-> sane]
Erased == Image("erased", 0, FALSE)
Torn == Image("torn", 0, FALSE)
NULL == Image("NULL", 0, FALSE)

LayoutLebs == 0 .. (UBI_LAYOUT_VOLUME_EBS - 1)
Copies == 0 .. (UBI_LAYOUT_VOLUME_COPIES - 1)

\* the tables create_empty_lvol builds
EmptyVtbl == Image("vtbl", 0, TRUE)
EmptyPtbl == Image("ptbl", 0, TRUE)

\* ubi_eba_unmap_leb and ubi_eba_write_leb on a LEB of the layout volume
ubi_eba_unmap_leb(lnum) == [op |-> "unmap", leb |-> lnum, img |-> Erased]
ubi_eba_write_leb(lnum, buf) == [op |-> "write", leb |-> lnum, img |-> buf]

Max(S) == CHOOSE x \in S : \A y \in S : x >= y

\* The flash after the first cut operations of ops; when tear, the power
\* was lost during operation cut + 1, a write.
ApplyOps(fl, ops, cut, tear) ==
    [l \in LayoutLebs |->
        LET done == {k \in 1 .. cut : ops[k].leb = l}
        IN IF tear /\ cut < Len(ops) /\ ops[cut + 1].leb = l
           THEN Torn
           ELSE IF done = {} THEN fl[l] ELSE ops[Max(done)].img]

(***************************************************************************)
(* vtbl_check: 0 if the tables are all right, 1 if a CRC is incorrect,     *)
(* -EINVAL if a record is inconsistent.  The records of the volume table   *)
(* are checked first, then the records of the PEB table.                   *)
(***************************************************************************)
vtbl_check(vtbl, pmap) ==
    IF vtbl.kind # "vtbl" THEN 1
    ELSE IF ~vtbl.sane THEN -EINVAL
    ELSE IF pmap.kind # "ptbl" THEN 1
    ELSE IF ~pmap.sane THEN -EINVAL
    ELSE 0

(***************************************************************************)
(* create_vtbl: the flash operations that write one copy.                  *)
(***************************************************************************)
create_vtbl(copy, vtbl, ptbl) ==
    LET leb == copy * UBI_LAYOUT_VOLUME_EBS_PER_COPY
    IN << ubi_eba_unmap_leb(leb), ubi_eba_write_leb(leb, vtbl),
          ubi_eba_unmap_leb(leb + 1), ubi_eba_write_leb(leb + 1, ptbl) >>

(***************************************************************************)
(* process_lvol.  The loop that reads the copies starts at i = 0 and adds  *)
(* UBI_LAYOUT_VOLUME_EBS_PER_COPY to i while i < UBI_LAYOUT_VOLUME_COPIES; *)
(* it reads LEB i into leb[i] and LEB i + 1 into pmap_leb[i].  The result  *)
(* is the value returned, the tables chosen and the flash operations.      *)
(***************************************************************************)
ReadIdx == {i \in Copies : i % UBI_LAYOUT_VOLUME_EBS_PER_COPY = 0}

process_lvol(fl) ==
    LET leb == [i \in Copies |-> IF i \in ReadIdx THEN fl[i] ELSE NULL]
        pmap_leb == [i \in Copies |->
                        IF i \in ReadIdx THEN fl[i + 1] ELSE NULL]
        failed == [ret |-> -EINVAL, vtbl |-> NULL, ptbl |-> NULL,
                   ops |-> <<>>]
        corrupted0 == IF leb[0] # NULL /\ pmap_leb[0] # NULL
                      THEN vtbl_check(leb[0], pmap_leb[0])
                      ELSE 1
    IN IF corrupted0 < 0 THEN failed
       ELSE IF corrupted0 = 0
       THEN LET corrupted1 ==
                    IF /\ leb[1] # NULL /\ pmap_leb[1] # NULL
                       /\ leb[0] = leb[1] /\ pmap_leb[0] = pmap_leb[1]
                    THEN 0 ELSE 1
            IN [ret |-> 0, vtbl |-> leb[0], ptbl |-> pmap_leb[0],
                ops |-> IF corrupted1 # 0
                        THEN create_vtbl(1, leb[0], pmap_leb[0])
                        ELSE <<>>]
       ELSE LET corrupted1 == IF leb[1] # NULL
                              THEN vtbl_check(leb[1], pmap_leb[1])
                              ELSE 1
            IN IF corrupted1 # 0 THEN failed
               ELSE [ret |-> 0, vtbl |-> leb[1], ptbl |-> pmap_leb[1],
                     ops |-> create_vtbl(0, leb[1], pmap_leb[1])]

(***************************************************************************)
(* create_empty_lvol: both copies are written with empty tables.           *)
(***************************************************************************)
RECURSIVE CreateCopies(_, _, _)
CreateCopies(i, vtbl, ptbl) ==
    IF i >= UBI_LAYOUT_VOLUME_COPIES
    THEN <<>>
    ELSE create_vtbl(i, vtbl, ptbl) \o CreateCopies(i + 1, vtbl, ptbl)

create_empty_lvol ==
    [ret |-> 0, vtbl |-> EmptyVtbl, ptbl |-> EmptyPtbl,
     ops |-> CreateCopies(0, EmptyVtbl, EmptyPtbl)]

(***************************************************************************)
(* ubi_read_volume_table, up to the choice of ubi->vtbl and ubi->ptbl:     *)
(* when process_lvol fails, an empty layout volume is written.             *)
(***************************************************************************)
ubi_read_volume_table(fl) ==
    IF process_lvol(fl).ret # 0 THEN create_empty_lvol ELSE process_lvol(fl)

(***************************************************************************)
(* ubi_change_vtbl_record: the volume table is written to every LEB of the *)
(* layout volume, in ascending order.                                      *)
(***************************************************************************)
ubi_change_vtbl_record(vtbl) ==
    [k \in 1 .. (2 * UBI_LAYOUT_VOLUME_EBS) |->
        IF k % 2 = 1
        THEN ubi_eba_unmap_leb((k - 1) \div 2)
        ELSE ubi_eba_write_leb((k - 2) \div 2, vtbl)]

(***************************************************************************)
(* ubi_vtbl_rename_volumes: after the records are renamed in ubi->vtbl,    *)
(* the volume table is written with the loop of ubi_change_vtbl_record.    *)
(***************************************************************************)
ubi_vtbl_rename_volumes(vtbl) ==
    [k \in 1 .. (2 * UBI_LAYOUT_VOLUME_EBS) |->
        IF k % 2 = 1
        THEN ubi_eba_unmap_leb((k - 1) \div 2)
        ELSE ubi_eba_write_leb((k - 2) \div 2, vtbl)]

(***************************************************************************)
(* ubi_change_ptbl: the PEB table is written to the second LEB of each     *)
(* copy, copy after copy.                                                  *)
(***************************************************************************)
\* ubi_change_ptbl that unmaps the LEB of every copy before it writes any
ubi_change_ptbl_UnmapsFirst(ptbl) ==
    [k \in 1 .. (2 * UBI_LAYOUT_VOLUME_COPIES) |->
        IF k <= UBI_LAYOUT_VOLUME_COPIES
        THEN ubi_eba_unmap_leb((k - 1) * UBI_LAYOUT_VOLUME_EBS_PER_COPY + 1)
        ELSE ubi_eba_write_leb((k - 1 - UBI_LAYOUT_VOLUME_COPIES) *
                                   UBI_LAYOUT_VOLUME_EBS_PER_COPY + 1, ptbl)]

ubi_change_ptbl(ptbl) ==
    [k \in 1 .. (2 * UBI_LAYOUT_VOLUME_COPIES) |->
        LET leb == ((k - 1) \div 2) * UBI_LAYOUT_VOLUME_EBS_PER_COPY + 1
        IN IF k % 2 = 1
           THEN ubi_eba_unmap_leb(leb)
           ELSE ubi_eba_write_leb(leb, ptbl)]

(***************************************************************************)
(* The state machine: a caller makes PMAP calls one after the other.       *)
(***************************************************************************)
NoCall == [op |-> "init"]

\* the layout volume while only the PEB map is exercised: nothing on flash,
\* no layout operation made
LayoutIdle ==
    /\ flash = [l \in LayoutLebs |-> Erased]
    /\ ubi_vtbl = NULL
    /\ ubi_ptbl = NULL
    /\ lpc = "off"
    /\ lcall = NoCall
    /\ lret = 0
    /\ old_flash = [l \in LayoutLebs |-> Erased]
    /\ gen = 1
    /\ lbudget = 0

\* no table records read and no PEB reported bad: the state of these
\* variables wherever the attach from table records is not exercised
NoTables == [written |-> FALSE, vtbl |-> <<>>, ptbl |-> <<>>]

\* a caller that has made no call
IdleThread ==
    [at |-> "idle", op |-> "none", reserved_pebs |-> 0, target |-> 0,
     pnum |-> 0, lnum |-> 0, took |-> {}]

NoThreads == [t \in UserVolIds |-> IdleThread]

\* no PPO page looked at
NoPpo == [op |-> "none", page |-> <<>>, old_page |-> <<>>, k |-> 0,
          byte |-> 0, categories |-> {}]

\* no update of a pair of LLP headers in progress
NoTxn == [on |-> FALSE, a |-> 0, b |-> 0, usn |-> 0]

\* no list of PEBs looked at
NoChain == [leb |-> 0, headers |-> <<>>, usn |-> 0, txn |-> NoTxn,
            op |-> "none", lost |-> FALSE, pre |-> 0, read |-> 0,
            budget |-> 0]

OthersIdle ==
    /\ lvol_tables = NoTables
    /\ bad_blocks = {}
    /\ inuse_in_mask = TRUE
    /\ threads = NoThreads
    /\ ppo = NoPpo
    /\ chain = NoChain

\* ubi_pmap_init
Init ==
    /\ peb_map = [pnum \in PebIds |-> ZeroPmap]
    /\ call = NoCall
    /\ ret = 0
    /\ old_map = [pnum \in PebIds |-> ZeroPmap]
    /\ pc = "ready"
    /\ budget = MaxCalls
    /\ LayoutIdle
    /\ OthersIdle

CanCall == pc = "ready" /\ budget > 0

\* init_volumes calls ubi_pmap_allocate_vol_pebs for the runs of the PEB table
\* and skips the runs of the layout volume
AllocateVolPebs ==
    /\ CanCall
    /\ \E vol_id \in UserVolIds, peb \in PebIds, run \in AllocRuns,
          bad \in BOOLEAN :
         LET r == ubi_pmap_allocate_vol_pebs(peb_map, vol_id, peb, run.leb,
                                             run.blocks, bad)
         IN /\ peb_map' = r.map
            /\ ret' = r.ret
            /\ call' = [op |-> "allocate", vol_id |-> vol_id, peb |-> peb,
                        leb |-> run.leb, blocks |-> run.blocks, bad |-> bad]
    /\ old_map' = peb_map
    /\ pc' = "ready"
    /\ budget' = budget - 1
    /\ UNCHANGED <<lvars, ovars>>

ResizeVolume ==
    /\ CanCall
    /\ \E vol_id \in VolIds, reserved_pebs \in ReservedPebs :
         LET r == ubi_pmap_resize_volume(peb_map, vol_id, reserved_pebs)
         IN /\ peb_map' = r.map
            /\ ret' = IF r.spin THEN ret ELSE r.ret
            /\ pc' = IF r.spin THEN "spin" ELSE "ready"
            /\ call' = [op |-> "resize", vol_id |-> vol_id,
                        reserved_pebs |-> reserved_pebs]
    /\ old_map' = peb_map
    /\ budget' = budget - 1
    /\ UNCHANGED <<lvars, ovars>>

MarkbadReplace ==
    /\ CanCall
    /\ \E pnum \in PebIds :
         LET r == ubi_pmap_markbad_replace(peb_map, pnum)
         IN /\ peb_map' = r.map
            /\ ret' = r.ret
            /\ call' = [op |-> "markbad", pnum |-> pnum]
    /\ old_map' = peb_map
    /\ pc' = "ready"
    /\ budget' = budget - 1
    /\ UNCHANGED <<lvars, ovars>>

Next == AllocateVolPebs \/ ResizeVolume \/ MarkbadReplace

Spec == Init /\ [][Next]_vars

\* A caller that only resizes volumes and replaces bad PEBs (the PEB map of
\* a device in operation: ubi_pmap_allocate_vol_pebs is the attach-time
\* reconstruction), and makes more calls.
InitNoAlloc ==
    /\ peb_map = [pnum \in PebIds |-> ZeroPmap]
    /\ call = NoCall
    /\ ret = 0
    /\ old_map = [pnum \in PebIds |-> ZeroPmap]
    /\ pc = "ready"
    /\ budget = MaxOps
    /\ LayoutIdle
    /\ OthersIdle

NextNoAlloc == ResizeVolume \/ MarkbadReplace

SpecNoAlloc == InitNoAlloc /\ [][NextNoAlloc]_vars

(***************************************************************************)
(* The layout volume: the device is attached (ubi_read_volume_table), the  *)
(* tables are changed (ubi_change_vtbl_record, ubi_change_ptbl) and the    *)
(* device is detached.  The power can be lost between two flash operations *)
(* of an attach or of a change, or during a write: cut is the number of    *)
(* flash operations that were made.                                        *)
(***************************************************************************)
\* a copy as an attach can find it: written, never written, or damaged
InitialCopies ==
    { <<Image("vtbl", 1, TRUE), Image("ptbl", 1, TRUE)>>,
      <<Erased, Erased>>,
      <<Torn, Image("ptbl", 1, TRUE)>>,
      <<Image("vtbl", 1, TRUE), Torn>>,
      <<Image("vtbl", 1, FALSE), Image("ptbl", 1, TRUE)>> }

CopyLebs(copy) ==
    (copy * UBI_LAYOUT_VOLUME_EBS_PER_COPY) ..
        (copy * UBI_LAYOUT_VOLUME_EBS_PER_COPY +
             UBI_LAYOUT_VOLUME_EBS_PER_COPY - 1)

InitLayout ==
    /\ peb_map = [pnum \in PebIds |-> ZeroPmap]
    /\ call = NoCall
    /\ ret = 0
    /\ old_map = [pnum \in PebIds |-> ZeroPmap]
    /\ pc = "ready"
    /\ budget = 0
    /\ \E c \in [Copies -> InitialCopies] :
          flash = [l \in LayoutLebs |->
                      c[l \div UBI_LAYOUT_VOLUME_EBS_PER_COPY]
                       [(l % UBI_LAYOUT_VOLUME_EBS_PER_COPY) + 1]]
    /\ ubi_vtbl = NULL
    /\ ubi_ptbl = NULL
    /\ lpc = "off"
    /\ lcall = NoCall
    /\ lret = 0
    /\ old_flash = flash
    /\ gen = 2
    /\ lbudget = MaxLayoutOps
    /\ OthersIdle

\* the points at which the power can be lost while ops are made
CutPoints(ops) ==
    {ct \in (0 .. Len(ops)) \X BOOLEAN :
        ct[2] => (ct[1] < Len(ops) /\ ops[ct[1] + 1].op = "write")}

\* the operation made before, in the call record of an attach
Before(c) == IF c.op = "commit" THEN c ELSE [op |-> c.op]

Attach ==
    /\ lpc = "off"
    /\ lbudget > 0
    /\ LET r == ubi_read_volume_table(flash)
       IN \E ct \in CutPoints(r.ops) :
             LET complete == ct[1] = Len(r.ops)
             IN /\ flash' = ApplyOps(flash, r.ops, ct[1], ct[2])
                /\ lpc' = IF complete /\ r.ret = 0 THEN "attached" ELSE "off"
                /\ ubi_vtbl' = IF complete /\ r.ret = 0 THEN r.vtbl ELSE NULL
                /\ ubi_ptbl' = IF complete /\ r.ret = 0 THEN r.ptbl ELSE NULL
                /\ lret' = IF complete THEN r.ret ELSE lret
                /\ lcall' = [op |-> "attach", ops |-> r.ops, cut |-> ct[1],
                             complete |-> complete, prev |-> Before(lcall)]
    /\ old_flash' = flash
    /\ lbudget' = lbudget - 1
    /\ UNCHANGED <<gen, pvars, ovars>>

\* a change of the tables: fn is the function, vtbl and ptbl the tables in
\* RAM when it writes, ops the flash operations it makes
Commit(fn, vtbl, ptbl, ops) ==
    /\ \E ct \in CutPoints(ops) :
          LET complete == ct[1] = Len(ops)
          IN /\ flash' = ApplyOps(flash, ops, ct[1], ct[2])
             /\ lpc' = IF complete THEN "attached" ELSE "off"
             /\ ubi_vtbl' = IF complete THEN vtbl ELSE NULL
             /\ ubi_ptbl' = IF complete THEN ptbl ELSE NULL
             /\ lret' = IF complete THEN 0 ELSE lret
             /\ lcall' = [op |-> "commit", fn |-> fn, ops |-> ops,
                          cut |-> ct[1], complete |-> complete,
                          old_vtbl |-> ubi_vtbl, old_ptbl |-> ubi_ptbl,
                          new_vtbl |-> vtbl, new_ptbl |-> ptbl,
                          before |-> flash]
    /\ old_flash' = flash
    /\ gen' = gen + 1
    /\ lbudget' = lbudget - 1
    /\ UNCHANGED <<pvars, ovars>>

ChangeVtblRecord ==
    /\ lpc = "attached"
    /\ lbudget > 0
    /\ Commit("ubi_change_vtbl_record", Image("vtbl", gen, TRUE), ubi_ptbl,
              ubi_change_vtbl_record(Image("vtbl", gen, TRUE)))

ChangePtbl ==
    /\ lpc = "attached"
    /\ lbudget > 0
    /\ Commit("ubi_change_ptbl", ubi_vtbl, Image("ptbl", gen, TRUE),
              ubi_change_ptbl(Image("ptbl", gen, TRUE)))

RenameVolumes ==
    /\ lpc = "attached"
    /\ lbudget > 0
    /\ Commit("ubi_vtbl_rename_volumes", Image("vtbl", gen, TRUE), ubi_ptbl,
              ubi_vtbl_rename_volumes(Image("vtbl", gen, TRUE)))

Detach ==
    /\ lpc = "attached"
    /\ lbudget > 0
    /\ lpc' = "off"
    /\ ubi_vtbl' = NULL
    /\ ubi_ptbl' = NULL
    /\ lcall' = [op |-> "detach", prev |-> Before(lcall)]
    /\ old_flash' = flash
    /\ lbudget' = lbudget - 1
    /\ UNCHANGED <<flash, lret, gen, pvars, ovars>>

NextLayout ==
    Attach \/ ChangeVtblRecord \/ RenameVolumes \/ ChangePtbl \/ Detach

SpecLayout == InitLayout /\ [][NextLayout]_vars


TypeOK ==
    /\ peb_map \in [PebIds -> [vol_id : VolIds, lnum : Nat,
                               inuse : BOOLEAN, bad : BOOLEAN]]
    /\ pc \in {"ready", "spin"}
    /\ budget \in 0 .. (MaxCalls + MaxOps)

(***************************************************************************)
(* Vocabulary of the properties.                                           *)
(***************************************************************************)
\* the PEB range a volume is allowed to occupy: the layout volume the first
\* R PEBs of the device, every other volume the rest
AllowedRange(vol_id) ==
    IF vol_id = UBI_LAYOUT_VOLUME_ID
    THEN 0 .. (UBI_LAYOUT_VOLUME_RESERVED_EBS - 1)
    ELSE UBI_LAYOUT_VOLUME_RESERVED_EBS .. (PebCount - 1)

\* the LEB numbers an entry of the model can carry
Lnums == 0 .. (PebCount + 1)

\* the PEBs in use by a volume
InUseBy(map, vol_id) ==
    {p \in PebIds : map[p].inuse /\ map[p].vol_id = vol_id}

\* the free, non-bad PEBs of a volume's allowed range
FreeGood(map, vol_id) ==
    {p \in AllowedRange(vol_id) : ~map[p].inuse /\ ~map[p].bad}

\* the i-th lowest element of a set of PEB numbers, i counted from 0
Nth(S, i) == CHOOSE x \in S : Cardinality({y \in S : y < x}) = i

\* the volume holds the LEBs 0..m-1, each on one PEB, and nothing else
HoldsLebs(map, vol_id, m) ==
    /\ Cardinality(InUseBy(map, vol_id)) = m
    /\ {map[p].lnum : p \in InUseBy(map, vol_id)} = 0 .. (m - 1)
    /\ \A p \in InUseBy(map, vol_id) : ~map[p].bad

(***************************************************************************)
(* C1: in every PEB map reachable by allocate, resize and markbad-replace  *)
(* calls, no entry has both bad and inuse set.                             *)
(***************************************************************************)
C1_BadInuseExclusive ==
    \A p \in PebIds : ~(peb_map[p].bad /\ peb_map[p].inuse)

\* a PEB that was in use has just been marked bad and replaced
C1_Witness ==
    /\ call.op = "markbad"
    /\ old_map[call.pnum].inuse
    /\ peb_map[call.pnum].bad
    /\ ret \in PebIds /\ ret # call.pnum
    /\ peb_map[ret].inuse

(***************************************************************************)
(* C2: a PEB that is flagged bad stays flagged bad and out of use across   *)
(* every later resize (grow, shrink, delete) and markbad-replace call.     *)
(***************************************************************************)
C2_BadStaysBad ==
    call.op \in {"resize", "markbad"} =>
        \A p \in PebIds :
            old_map[p].bad => (peb_map[p].bad /\ ~peb_map[p].inuse)

(***************************************************************************)
(* C3: a PEB whose bad flag is set when the call is made is never returned *)
(* by lookup, never taken by a growing resize and never taken as the       *)
(* replacement by markbad-replace.                                         *)
(***************************************************************************)
C3_BadNeverChosen ==
    /\ \A vol_id \in VolIds, lnum \in Lnums :
          LET pnum == ubi_pmap_lookup_pnum(peb_map, vol_id, lnum)
          IN pnum # -1 => ~peb_map[pnum].bad
    /\ call.op = "resize" =>
          \A p \in PebIds : old_map[p].bad => ~peb_map[p].inuse
    /\ call.op = "markbad" =>
          \A p \in PebIds :
              old_map[p].bad =>
                  /\ ~peb_map[p].inuse
                  /\ (ret # call.pnum => ret # p)

\* a resize has grown a volume past a bad PEB of its range, and a lookup
\* resolves on the far side of it
C3_Witness ==
    /\ call.op = "resize"
    /\ \E p, q \in AllowedRange(call.vol_id) :
          /\ p < q
          /\ old_map[p].bad
          /\ ~old_map[q].inuse /\ peb_map[q].inuse
          /\ ubi_pmap_lookup_pnum(peb_map, call.vol_id, peb_map[q].lnum) = q

(***************************************************************************)
(* C4: every in-use entry of the layout volume lies in [0, R) and every    *)
(* in-use entry of any other volume lies in [R, peb_count).                *)
(***************************************************************************)
C4_InAllowedRange ==
    \A p \in PebIds :
        peb_map[p].inuse =>
            IF peb_map[p].vol_id = UBI_LAYOUT_VOLUME_ID
            THEN p < UBI_LAYOUT_VOLUME_RESERVED_EBS
            ELSE p >= UBI_LAYOUT_VOLUME_RESERVED_EBS /\ p < PebCount

\* the layout volume and a user volume both hold PEBs, and a bad PEB has
\* just been replaced
C4_Witness ==
    /\ call.op = "markbad"
    /\ ret \in PebIds /\ ret # call.pnum
    /\ InUseBy(peb_map, UBI_LAYOUT_VOLUME_ID) # {}
    /\ \E vol_id \in UserVolIds : InUseBy(peb_map, vol_id) # {}

(***************************************************************************)
(* C5: resize(vol, n) of a volume that holds no PEB, with at least n free  *)
(* non-bad PEBs in its range, puts LEB i on the i-th lowest free non-bad   *)
(* PEB for every i < n, and lookup fails for every i >= n.                 *)
(***************************************************************************)
C5_GrowFromEmpty ==
    call.op = "resize" =>
        LET vol_id == call.vol_id
            n == call.reserved_pebs
            free == FreeGood(old_map, vol_id)
        IN (InUseBy(old_map, vol_id) = {} /\ Cardinality(free) >= n) =>
              /\ pc = "ready"
              /\ \A i \in 0 .. (n - 1) :
                    ubi_pmap_lookup_pnum(peb_map, vol_id, i) = Nth(free, i)
              /\ \A i \in Lnums :
                    i >= n => ubi_pmap_lookup_pnum(peb_map, vol_id, i) = -1

\* an empty volume has been grown to two or more LEBs over a range that has
\* a bad PEB and a PEB of another volume before its last free PEB
C5_Witness ==
    /\ call.op = "resize"
    /\ call.reserved_pebs >= 2
    /\ InUseBy(old_map, call.vol_id) = {}
    /\ Cardinality(FreeGood(old_map, call.vol_id)) >= call.reserved_pebs
    /\ \E p \in AllowedRange(call.vol_id) :
          /\ old_map[p].bad \/ old_map[p].inuse
          /\ p < ubi_pmap_lookup_pnum(peb_map, call.vol_id,
                                      call.reserved_pebs - 1)

(***************************************************************************)
(* C6: if a volume holds the LEBs 0..m-1 and resize(vol, n) is called with *)
(* 0 < n < m, lookup afterwards fails for every LEB in [n, m) and returns  *)
(* the PEB it returned before for every LEB in [0, n).                     *)
(***************************************************************************)
C6_ShrinkFromLogicalEnd ==
    call.op = "resize" =>
        LET vol_id == call.vol_id
            n == call.reserved_pebs
            m == Cardinality(InUseBy(old_map, vol_id))
        IN (0 < n /\ n < m /\ HoldsLebs(old_map, vol_id, m)) =>
              /\ pc = "ready"
              /\ \A i \in n .. (m - 1) :
                    ubi_pmap_lookup_pnum(peb_map, vol_id, i) = -1
              /\ \A i \in 0 .. (n - 1) :
                    /\ ubi_pmap_lookup_pnum(peb_map, vol_id, i) # -1
                    /\ ubi_pmap_lookup_pnum(peb_map, vol_id, i) =
                           ubi_pmap_lookup_pnum(old_map, vol_id, i)

\* a volume whose last LEB sits on a lower PEB than its first LEB has been
\* shrunk
C6_Witness ==
    /\ call.op = "resize"
    /\ pc = "ready"
    /\ LET vol_id == call.vol_id
           n == call.reserved_pebs
           m == Cardinality(InUseBy(old_map, vol_id))
       IN /\ 0 < n /\ n < m
          /\ HoldsLebs(old_map, vol_id, m)
          /\ ubi_pmap_lookup_pnum(old_map, vol_id, m - 1) <
                 ubi_pmap_lookup_pnum(old_map, vol_id, 0)

(***************************************************************************)
(* C7: a resize that asks for more PEBs than there are free non-bad PEBs   *)
(* in the volume's range does not report success.                          *)
(***************************************************************************)
C7_ShortfallReported ==
    call.op = "resize" =>
        LET vol_id == call.vol_id
            n == call.reserved_pebs
            have == ubi_pmap_vol_peb_count(old_map, vol_id)
        IN (pc = "ready" /\ n > have /\
            n - have > Cardinality(FreeGood(old_map, vol_id))) =>
              ret # 0

(***************************************************************************)
(* C8: resize(vol, 0) leaves no in-use entry for vol, and leaves every     *)
(* entry that is in use by another volume unchanged.                       *)
(***************************************************************************)
C8_DeleteVolume ==
    (call.op = "resize" /\ call.reserved_pebs = 0) =>
        /\ pc = "ready"
        /\ InUseBy(peb_map, call.vol_id) = {}
        /\ ubi_pmap_vol_peb_count(peb_map, call.vol_id) = 0
        /\ \A i \in Lnums :
              ubi_pmap_lookup_pnum(peb_map, call.vol_id, i) = -1
        /\ \A p \in PebIds :
              (old_map[p].inuse /\ old_map[p].vol_id # call.vol_id) =>
                  peb_map[p] = old_map[p]

\* a volume that held PEBs has been deleted while another volume holds PEBs
\* of the same range
C8_Witness ==
    /\ call.op = "resize"
    /\ call.reserved_pebs = 0
    /\ InUseBy(old_map, call.vol_id) # {}
    /\ \E p \in AllowedRange(call.vol_id) :
          peb_map[p].inuse /\ peb_map[p].vol_id # call.vol_id

(***************************************************************************)
(* C9: markbad-replace of an in-use, non-bad PEB p holding (vol, l), with  *)
(* a free non-bad PEB in vol's range, returns the lowest such PEB q;       *)
(* afterwards lookup(vol, l) = q, p is bad and not in use, and no entry    *)
(* other than p and q has changed.                                         *)
(***************************************************************************)
C9_ReplacedByLowestFree ==
    call.op = "markbad" =>
        LET p == call.pnum
            vol_id == old_map[p].vol_id
            lnum == old_map[p].lnum
            free == FreeGood(old_map, vol_id)
        IN (old_map[p].inuse /\ ~old_map[p].bad /\ free # {}) =>
              /\ ret = Min(free)
              /\ ubi_pmap_lookup_pnum(peb_map, vol_id, lnum) = ret
              /\ peb_map[p].bad /\ ~peb_map[p].inuse
              /\ \A r \in PebIds \ {p, ret} : peb_map[r] = old_map[r]

(***************************************************************************)
(* C10: markbad-replace of an in-use PEB, when the owning volume's range   *)
(* has no free non-bad PEB, returns the out-of-space error, not a PEB.     *)
(***************************************************************************)
C10_NoReplacementIsError ==
    call.op = "markbad" =>
        LET p == call.pnum
        IN (old_map[p].inuse /\ FreeGood(old_map, old_map[p].vol_id) = {}) =>
              /\ ret = -ENOMEM
              /\ ret \notin PebIds

\* a PEB of a volume whose range is full has been marked bad
C10_Witness ==
    /\ call.op = "markbad"
    /\ old_map[call.pnum].inuse
    /\ FreeGood(old_map, old_map[call.pnum].vol_id) = {}
    /\ peb_map[call.pnum].bad

(***************************************************************************)
(* C11: ubi_pmap_allocate_vol_pebs returns an error when the PEB range     *)
(* [peb, peb + blocks) is not wholly inside the volume's allowed range,    *)
(* and when an entry of the range is already in use for the volume; in     *)
(* both cases the PEB map is as it was before the call.                    *)
(***************************************************************************)
C11_AllocateErrors ==
    call.op = "allocate" =>
        LET range == call.peb .. (call.peb + call.blocks - 1)
            outside == ~(range \subseteq AllowedRange(call.vol_id))
            taken == \E p \in range \cap PebIds :
                         old_map[p].inuse /\ old_map[p].vol_id = call.vol_id
        IN (outside \/ taken) => (ret < 0 /\ peb_map = old_map)

\* a run of two blocks inside the allowed range was refused because its
\* second block is in use for the volume while its first block is not
C11_Witness ==
    /\ call.op = "allocate"
    /\ call.blocks = 2
    /\ (call.peb .. (call.peb + 1)) \subseteq AllowedRange(call.vol_id)
    /\ ~(old_map[call.peb].inuse /\ old_map[call.peb].vol_id = call.vol_id)
    /\ old_map[call.peb + 1].inuse
    /\ old_map[call.peb + 1].vol_id = call.vol_id
    /\ ret = -EINVAL

\* the entries a PEB table has to record: in use, or bad
Listed(map, p) == map[p].inuse \/ map[p].bad

\* PEB p + 1 continues the run of PEB p
Continues(map, p) ==
    /\ p + 1 \in PebIds
    /\ Listed(map, p) /\ Listed(map, p + 1)
    /\ map[p + 1].vol_id = map[p].vol_id
    /\ map[p + 1].bad = map[p].bad
    /\ map[p + 1].lnum = map[p].lnum + 1

\* the maximal runs of a PEB map, as callback arguments
MaximalRuns(map) ==
    {[vol_id |-> map[p].vol_id, peb |-> p, leb |-> map[p].lnum,
      blocks |-> q - p + 1, bad |-> map[p].bad] :
        <<p, q>> \in {pq \in PebIds \X PebIds :
            /\ pq[1] <= pq[2]
            /\ Listed(map, pq[1])
            /\ (pq[1] = 0 \/ ~Continues(map, pq[1] - 1))
            /\ \A r \in pq[1] .. (pq[2] - 1) : Continues(map, r)
            /\ ~Continues(map, pq[2])}}

\* ubi_pmap_allocate_vol_pebs called once per run, in order
RECURSIVE Reallocate(_, _, _)
Reallocate(map, cbs, k) ==
    IF k > Len(cbs)
    THEN map
    ELSE Reallocate(
             ubi_pmap_allocate_vol_pebs(map, cbs[k].vol_id, cbs[k].peb,
                                        cbs[k].leb, cbs[k].blocks,
                                        cbs[k].bad).map,
             cbs, k + 1)

(***************************************************************************)
(* C12: round trip.  In every reachable PEB map, allocating on an empty    *)
(* map the runs that ubi_pmap_extract_vol_pebs reports gives the map back: *)
(* the same inuse and bad flags for every PEB, and the same vol_id and     *)
(* lnum for every PEB that is in use or bad.                               *)
(***************************************************************************)
C12_RoundTrip ==
    pc = "ready" =>
        LET again == Reallocate([pnum \in PebIds |-> ZeroPmap],
                                ubi_pmap_extract_vol_pebs(peb_map), 1)
        IN \A p \in PebIds :
              /\ again[p].inuse = peb_map[p].inuse
              /\ again[p].bad = peb_map[p].bad
              /\ Listed(peb_map, p) =>
                    /\ again[p].vol_id = peb_map[p].vol_id
                    /\ again[p].lnum = peb_map[p].lnum

(***************************************************************************)
(* C13: in every reachable PEB map, ubi_pmap_extract_vol_pebs calls the    *)
(* callback in ascending PEB order, exactly once for each maximal run of   *)
(* consecutive PEBs with the same vol_id, the same bad flag and            *)
(* consecutive lnums; the runs cover every in-use and every bad entry,     *)
(* the run that ends at the last PEB of the device included.               *)
(***************************************************************************)
C13_ExtractMaximalRuns ==
    pc = "ready" =>
        LET cbs == ubi_pmap_extract_vol_pebs(peb_map)
        IN /\ \A j, k \in 1 .. Len(cbs) : j < k => cbs[j].peb < cbs[k].peb
           /\ {cbs[j] : j \in 1 .. Len(cbs)} = MaximalRuns(peb_map)
           /\ \A p \in PebIds :
                 Listed(peb_map, p) =>
                     \E j \in 1 .. Len(cbs) :
                         p \in cbs[j].peb .. (cbs[j].peb + cbs[j].blocks - 1)

\* no LEB of the copy is unmapped or half written
Whole(fl, copy) ==
    \A l \in CopyLebs(copy) : fl[l].kind \notin {"erased", "torn"}

\* the tables a copy holds
CopyOf(fl, copy) ==
    <<fl[copy * UBI_LAYOUT_VOLUME_EBS_PER_COPY],
      fl[copy * UBI_LAYOUT_VOLUME_EBS_PER_COPY + 1]>>

\* the copy passes the validation of vtbl_check
Valid(fl, copy) == vtbl_check(CopyOf(fl, copy)[1], CopyOf(fl, copy)[2]) = 0

(***************************************************************************)
(* C14: in the flash operations of a change of the tables, and of the      *)
(* rewriting of copies at attach, no unmap or write of a LEB of copy 1     *)
(* comes before an operation on a LEB of copy 0, and every LEB of copy 0   *)
(* that was unmapped has been written when the first operation on copy 1   *)
(* is made; so if both copies were whole before, at most one copy is torn  *)
(* wherever the power is lost.                                             *)
(***************************************************************************)
C14_CopyAfterCopy ==
    lcall.op \in {"commit", "attach"} =>
        LET ops == lcall.ops
        IN /\ \A j, k \in 1 .. Len(ops) :
                 (j < k /\ ops[j].leb \in CopyLebs(1)) =>
                     ops[k].leb \notin CopyLebs(0)
           /\ \A j \in 1 .. Len(ops) :
                 ops[j].leb \in CopyLebs(1) =>
                     Whole(ApplyOps([l \in LayoutLebs |->
                                        Image("vtbl", 0, TRUE)],
                                    ops, j - 1, FALSE), 0)
           /\ (Whole(old_flash, 0) /\ Whole(old_flash, 1)) =>
                 (Whole(flash, 0) \/ Whole(flash, 1))

\* the power was lost during the write of the PEB table of copy 1, after
\* copy 0 got the new PEB table
C14_Witness ==
    /\ lcall.op = "commit"
    /\ lcall.fn = "ubi_change_ptbl"
    /\ ~lcall.complete
    /\ Whole(old_flash, 0) /\ Whole(old_flash, 1)
    /\ flash[1] = lcall.new_ptbl
    /\ flash[UBI_LAYOUT_VOLUME_EBS_PER_COPY + 1].kind = "torn"

\* the power was lost in a change of the tables when every flash operation
\* on copy 0 was made and none on copy 1
CutAfterCopy0(c) ==
    /\ c.op = "commit"
    /\ ~c.complete
    /\ c.cut = Cardinality({k \in 1 .. Len(c.ops) :
                               c.ops[k].leb \in CopyLebs(0)})

(***************************************************************************)
(* C15: when a change of the tables lost power after copy 0 was completely *)
(* written and before copy 1 was touched, the attach that follows takes    *)
(* the volume table and the PEB table of copy 0 and rewrites copy 1, so    *)
(* that both copies are equal to what copy 0 was.                          *)
(***************************************************************************)
C15_Copy0Recovered ==
    (lcall.op = "attach" /\ lcall.complete /\ CutAfterCopy0(lcall.prev)) =>
        /\ lret = 0
        /\ ubi_vtbl = CopyOf(old_flash, 0)[1]
        /\ ubi_ptbl = CopyOf(old_flash, 0)[2]
        /\ CopyOf(flash, 0) = CopyOf(old_flash, 0)
        /\ CopyOf(flash, 1) = CopyOf(old_flash, 0)

\* the power was lost in a change of the tables that began with two valid
\* and identical copies on flash
CutInCommit(c) ==
    /\ c.op = "commit"
    /\ ~c.complete
    /\ Valid(c.before, 0)
    /\ CopyOf(c.before, 1) = CopyOf(c.before, 0)

(***************************************************************************)
(* C16: when the power is lost at any point of a change of the tables that *)
(* began with both copies valid and identical, the attach that follows     *)
(* succeeds, and the tables it takes are either the two tables that were   *)
(* on flash before the change or the two tables the change was writing:    *)
(* never the empty tables, never one old table with one new table.         *)
(***************************************************************************)
C16_OldOrNewAfterPowerLoss ==
    (lcall.op = "attach" /\ lcall.complete /\ CutInCommit(lcall.prev)) =>
        /\ lret = 0
        /\ <<ubi_vtbl, ubi_ptbl>> \in
               { CopyOf(lcall.prev.before, 0),
                 <<lcall.prev.new_vtbl, lcall.prev.new_ptbl>> }

(***************************************************************************)
(* C17: when an attach finds copy 0 failing the validation, by a CRC or by *)
(* a check of a record, and copy 1 passing it, the attach returns 0, the   *)
(* tables in memory are those of copy 1, copy 0 has been rewritten from    *)
(* copy 1 and copy 1 is as it was: no empty layout is created.             *)
(***************************************************************************)
C17_Copy1Recovered ==
    (/\ lcall.op = "attach" /\ lcall.complete
     /\ ~Valid(old_flash, 0) /\ Valid(old_flash, 1)) =>
        /\ lret = 0
        /\ <<ubi_vtbl, ubi_ptbl>> = CopyOf(old_flash, 1)
        /\ CopyOf(flash, 0) = CopyOf(old_flash, 1)
        /\ CopyOf(flash, 1) = CopyOf(old_flash, 1)

\* the layout volume was written before: some LEB of it is not erased
HoldsLayout(fl) == \E l \in LayoutLebs : fl[l].kind # "erased"

(***************************************************************************)
(* C18: when an attach finds a layout on the device and both copies fail   *)
(* the validation, the attach returns an error and makes no flash          *)
(* operation: the LEBs of the layout volume are as they were.              *)
(***************************************************************************)
C18_BothInvalidIsFatal ==
    (/\ lcall.op = "attach"
     /\ HoldsLayout(old_flash)
     /\ ~Valid(old_flash, 0) /\ ~Valid(old_flash, 1)) =>
        /\ lcall.ops = <<>>
        /\ flash = old_flash
        /\ lret < 0
        /\ lpc = "off"

(***************************************************************************)
(* C19: when an attach finds copy 0 valid and copy 1 equal to it, it makes *)
(* no unmap and no write of a LEB of the layout volume, the flash is as it *)
(* was and the tables in memory are those of copy 0.                       *)
(***************************************************************************)
C19_IdenticalCopiesUntouched ==
    (/\ lcall.op = "attach"
     /\ Valid(old_flash, 0)
     /\ CopyOf(old_flash, 1) = CopyOf(old_flash, 0)) =>
        /\ lcall.ops = <<>>
        /\ flash = old_flash
        /\ lret = 0
        /\ <<ubi_vtbl, ubi_ptbl>> = CopyOf(old_flash, 0)

(***************************************************************************)
(* The PEB map through the PEB table and back: ubi_change_ptbl makes the   *)
(* records of the PEB table from the PEB map, and an attach that reads     *)
(* them makes the PEB map from the records (init_layout_volume,            *)
(* init_volumes, check_volume_pmap).                                       *)
(***************************************************************************)
\* add_ptbl_record: the record made for one call of the callback; flags is
\* the set of the flag bits that are set
add_ptbl_record(cb) ==
    [peb |-> cb.peb, leb |-> cb.leb, num |-> cb.blocks, vol_id |-> cb.vol_id,
     flags |-> IF cb.bad THEN {"UBI_PEB_BAD"} ELSE {"UBI_PEB_INUSE"}]

\* the records ubi_change_ptbl puts in ubi->ptbl, the empty records left out
PtblRecords(map) ==
    [k \in 1 .. Len(ubi_pmap_extract_vol_pebs(map)) |->
        add_ptbl_record(ubi_pmap_extract_vol_pebs(map)[k])]

\* reserved_pebs of the records of the volume table that goes with a PEB
\* map: what check_pmap compares ubi_pmap_vol_peb_count with
VtblRecords(map) ==
    [vol_id \in UserVolIds |-> ubi_pmap_vol_peb_count(map, vol_id)]

\* the PEBs ubi_io_is_bad reports: those the PEB map had marked bad
BadPebs(map) == {pnum \in PebIds : map[pnum].bad}

\* lvol->reserved_pebs: UBI_LAYOUT_VOLUME_EBS, on a device whose reserved
\* area is smaller than that the whole reserved area
lvol_reserved_pebs ==
    Min({UBI_LAYOUT_VOLUME_EBS, UBI_LAYOUT_VOLUME_RESERVED_EBS})

\* the loop of init_layout_volume that looks for the first good PEBs; err
\* is the value of err when PEB pnum is probed
RECURSIVE ProbeLayoutPebs(_, _, _, _, _)
ProbeLayoutPebs(map, bad_pebs, pnum, lnum, err) ==
    IF pnum >= PebCount
    THEN [map |-> map, ret |-> err]
    ELSE IF pnum \in bad_pebs
    THEN LET r == ubi_pmap_markbad_replace(map, pnum)
         IN IF r.ret < 0
            THEN r
            ELSE ProbeLayoutPebs(r.map, bad_pebs, pnum + 1, lnum, r.ret)
    ELSE IF lnum + 1 = lvol_reserved_pebs
    THEN [map |-> map, ret |-> 0]
    ELSE ProbeLayoutPebs(map, bad_pebs, pnum + 1, lnum + 1, 0)

init_layout_volume(map, bad_pebs) ==
    LET r == ubi_pmap_resize_volume(map, UBI_LAYOUT_VOLUME_ID,
                                    lvol_reserved_pebs)
    IN ProbeLayoutPebs(r.map, bad_pebs, 0, 0, r.ret)

\* the loop of init_volumes over the records of the PEB table, from record i
RECURSIVE InitVolumesWalk(_, _, _)
InitVolumesWalk(map, ptbl, i) ==
    IF i > Len(ptbl)
    THEN [map |-> map, ret |-> 0]
    ELSE IF /\ ptbl[i].num # 0
            /\ "UBI_PEB_INUSE" \in ptbl[i].flags
            /\ ptbl[i].vol_id # UBI_LAYOUT_VOLUME_ID
    THEN LET r == ubi_pmap_allocate_vol_pebs(
                      map, ptbl[i].vol_id, ptbl[i].peb, ptbl[i].leb,
                      ptbl[i].num, "UBI_PEB_BAD" \in ptbl[i].flags)
         IN IF r.ret < 0
            THEN r
            ELSE InitVolumesWalk(r.map, ptbl, i + 1)
    ELSE InitVolumesWalk(map, ptbl, i + 1)

init_volumes(map, ptbl) == InitVolumesWalk(map, ptbl, 1)

\* check_pmap: vol_reserved_pebs is vol->reserved_pebs
check_pmap(map, vol_reserved_pebs, vol_id) ==
    IF ubi_pmap_vol_peb_count(map, vol_id) # vol_reserved_pebs
    THEN -EINVAL
    ELSE IF \E i \in 0 .. (vol_reserved_pebs - 1) :
                ubi_pmap_lookup_pnum(map, vol_id, i) < 0
    THEN -EINVAL
    ELSE 0

\* the volumes of ubi->volumes in the order of their index: the user
\* volumes, then the layout volume
VolOrder(i) == IF i <= Cardinality(UserVolIds) THEN i - 1
               ELSE UBI_LAYOUT_VOLUME_ID

\* the loop of check_volume_pmap, from index i; vtbl gives reserved_pebs of
\* the user volumes
RECURSIVE CheckVolumesWalk(_, _, _)
CheckVolumesWalk(map, vtbl, i) ==
    IF i > Cardinality(VolIds)
    THEN [map |-> map, ret |-> 0]
    ELSE LET vol_id == VolOrder(i)
             peb_count == ubi_pmap_vol_peb_count(map, vol_id)
             vol_reserved_pebs == IF vol_id = UBI_LAYOUT_VOLUME_ID
                                  THEN lvol_reserved_pebs
                                  ELSE vtbl[vol_id]
         IN IF vol_reserved_pebs = 0
            THEN CheckVolumesWalk(
                     IF peb_count # 0
                     THEN ubi_pmap_resize_volume(map, vol_id, 0).map
                     ELSE map,
                     vtbl, i + 1)
            ELSE IF peb_count # 0 /\
                    check_pmap(map, vol_reserved_pebs, vol_id) # 0
            THEN [map |-> map, ret |-> -EINVAL]
            ELSE CheckVolumesWalk(map, vtbl, i + 1)

\* check_volume_pmap that leaves in the PEB map the PEBs of a volume the
\* volume table does not have
check_volume_pmap_KeepsStale(map, vtbl) ==
    [map |-> map, ret |-> CheckVolumesWalk(map, vtbl, 1).ret]

check_volume_pmap(map, vtbl) == CheckVolumesWalk(map, vtbl, 1)

\* ubi_read_volume_table on a flash whose two copies hold the tables made
\* from the PEB map committed: the value returned and the PEB map built
RecoverPmap(committed) ==
    LET l == init_layout_volume([pnum \in PebIds |-> ZeroPmap],
                                BadPebs(committed))
        v == init_volumes(l.map, PtblRecords(committed))
        c == check_volume_pmap(v.map, VtblRecords(committed))
    IN IF l.ret # 0 THEN l
       ELSE IF v.ret # 0 THEN v
       ELSE c

(***************************************************************************)
(* C20: for every PEB map reachable by allocation, resize and bad-block    *)
(* replacement, writing the PEB table made from it and attaching again on  *)
(* the flash as written succeeds and gives the PEB map back: outside the   *)
(* area of the layout volume, whose PEBs the attach finds by probing,      *)
(* every PEB has the same inuse and bad flags, and the same vol_id and     *)
(* lnum if it is in use or bad.                                            *)
(***************************************************************************)
C20_CommitThenRecover ==
    pc = "ready" =>
        /\ RecoverPmap(peb_map).ret = 0
        /\ \A p \in PebIds \ AreaOf(UBI_LAYOUT_VOLUME_ID) :
              /\ RecoverPmap(peb_map).map[p].inuse = peb_map[p].inuse
              /\ RecoverPmap(peb_map).map[p].bad = peb_map[p].bad
              /\ Listed(peb_map, p) =>
                    /\ RecoverPmap(peb_map).map[p].vol_id = peb_map[p].vol_id
                    /\ RecoverPmap(peb_map).map[p].lnum = peb_map[p].lnum

(***************************************************************************)
(* The attach from the records of the tables: ubi_read_volume_table reads  *)
(* the records of copy 0, checks them (vtbl_check), takes them or makes    *)
(* empty tables (create_empty_lvol), and builds the volumes and the PEB    *)
(* map from the records taken (init_layout_volume, init_volumes,           *)
(* check_volume_pmap).  A record of the volume table is reserved_pebs of   *)
(* the volume of that slot, 0 for an empty record; the other fields and    *)
(* the CRCs are taken to be right.  A record of the PEB table is peb, leb, *)
(* num, vol_id and the set of the flags that are set; the empty records    *)
(* after the last record are left out.                                     *)
(***************************************************************************)
\* the flags vtbl_check lets pass: flags & ~(UBI_PEB_FREE | UBI_PEB_BAD)
\* must be zero
AllowedFlags(inuse_ok) ==
    {"UBI_PEB_FREE", "UBI_PEB_BAD"} \cup
        (IF inuse_ok THEN {"UBI_PEB_INUSE"} ELSE {})

\* vtbl_check on records whose CRCs are right: 0, or -EINVAL when a record
\* is not sensible
vtbl_check_recs(vtbl, ptbl, good_peb_count, inuse_ok) ==
    IF \E i \in DOMAIN vtbl :
          vtbl[i] # 0 /\ (vtbl[i] < 0 \/ vtbl[i] > good_peb_count)
    THEN -EINVAL
    ELSE IF \E i \in 1 .. Len(ptbl) :
               \/ ptbl[i].peb < 0 \/ ptbl[i].leb < 0
               \/ ptbl[i].flags \ AllowedFlags(inuse_ok) # {}
               \/ ptbl[i].vol_id \notin VolIds
    THEN -EINVAL
    ELSE 0

\* the record is in use and not bad, as normalise_ptbl tests it
InUseRecord(pr) ==
    "UBI_PEB_INUSE" \in pr.flags /\ "UBI_PEB_BAD" \notin pr.flags

\* concat_pmap_record: the two records after the call
concat_pmap_record(pr1, pr2) ==
    LET peb_before == pr1.peb = pr2.peb + pr2.num
        peb_after == pr2.peb = pr1.peb + pr1.num
        leb_before == pr1.leb = pr2.leb + pr2.num
        leb_after == pr2.leb = pr1.leb + pr1.num
    IN IF /\ pr1.vol_id = pr2.vol_id
          /\ pr1.flags = pr2.flags
          /\ ((peb_after /\ leb_after) \/ (peb_before /\ leb_before))
       THEN << [pr1 EXCEPT !.peb = IF peb_before THEN pr2.peb ELSE @,
                           !.leb = IF peb_before THEN pr2.leb ELSE @,
                           !.num = pr1.num + pr2.num],
               [pr2 EXCEPT !.flags = @ \ {"UBI_PEB_INUSE"}] >>
       ELSE <<pr1, pr2>>

\* the two loops of normalise_ptbl, at records i and j
RECURSIVE NormaliseWalk(_, _, _)
NormaliseWalk(ptbl, i, j) ==
    IF i > Len(ptbl) - 1
    THEN ptbl
    ELSE IF j > Len(ptbl) \/ ~InUseRecord(ptbl[i])
    THEN NormaliseWalk(ptbl, i + 1, i + 2)
    ELSE IF InUseRecord(ptbl[j])
    THEN NormaliseWalk([ptbl EXCEPT
                           ![i] = concat_pmap_record(ptbl[i], ptbl[j])[1],
                           ![j] = concat_pmap_record(ptbl[i], ptbl[j])[2]],
                       i, j + 1)
    ELSE NormaliseWalk(ptbl, i, j + 1)

normalise_ptbl(ptbl) == NormaliseWalk(ptbl, 1, 2)

\* the tables create_empty_lvol makes: every record of the volume table
\* empty, and one record of the PEB table for each LEB of the layout volume
\* (num is not assigned: it keeps the 0 of the empty record), normalised
EmptyVtblRecs == [vol_id \in UserVolIds |-> 0]

create_empty_lvol_recs(map) ==
    [written |-> TRUE,
     vtbl |-> EmptyVtblRecs,
     ptbl |-> normalise_ptbl(
                 [i \in 1 .. lvol_reserved_pebs |->
                     [peb |-> ubi_pmap_lookup_pnum(map, UBI_LAYOUT_VOLUME_ID,
                                                   i - 1),
                      leb |-> i - 1,
                      num |-> 0,
                      vol_id |-> UBI_LAYOUT_VOLUME_ID,
                      flags |-> {"UBI_PEB_INUSE"}]])]

\* ubi_read_volume_table on the records found in copy 0: the result of
\* vtbl_check (1 when nothing was ever written), the tables taken, the
\* function reached last, the PEB map it was given, and the PEB map and the
\* value at the return
ubi_read_volume_table_recs(tables, bad_pebs, inuse_ok) ==
    LET l == init_layout_volume([pnum \in PebIds |-> ZeroPmap], bad_pebs)
        chk == IF tables.written
               THEN vtbl_check_recs(tables.vtbl, tables.ptbl,
                                    PebCount - Cardinality(bad_pebs),
                                    inuse_ok)
               ELSE 1
        taken == IF chk = 0 THEN tables ELSE create_empty_lvol_recs(l.map)
        v == init_volumes(l.map, taken.ptbl)
        c == check_volume_pmap(v.map, taken.vtbl)
    IN IF l.ret # 0
       THEN [stage |-> "init_layout_volume", check |-> 1,
             tables |-> NoTables, built |-> l.map, map |-> l.map,
             ret |-> l.ret]
       ELSE IF v.ret # 0
       THEN [stage |-> "init_volumes", check |-> chk, tables |-> taken,
             built |-> v.map, map |-> v.map, ret |-> v.ret]
       ELSE [stage |-> "check_volume_pmap", check |-> chk, tables |-> taken,
             built |-> v.map, map |-> c.map, ret |-> c.ret]

\* the tables an attach can find: none, or a volume table and up to two
\* records of the PEB table
InputPtblRecords ==
    [peb : PebIds, leb : 0 .. 1, num : 1 .. 2, vol_id : UserVolIds,
     flags : {{"UBI_PEB_INUSE"}, {"UBI_PEB_BAD"}}]

InputPtbls ==
    {<<>>} \cup {<<pr>> : pr \in InputPtblRecords}
           \cup {<<pr1, pr2>> : pr1, pr2 \in InputPtblRecords}

InputTables ==
    {NoTables} \cup
        [written : {TRUE},
         vtbl : [UserVolIds -> 0 .. 2],
         ptbl : InputPtbls]

InitAttach ==
    /\ peb_map = [pnum \in PebIds |-> ZeroPmap]
    /\ call = NoCall
    /\ ret = 0
    /\ old_map = [pnum \in PebIds |-> ZeroPmap]
    /\ pc = "ready"
    /\ budget = 0
    /\ LayoutIdle
    /\ lvol_tables \in InputTables
    /\ bad_blocks \in {{}, {0}}
    /\ inuse_in_mask \in BOOLEAN
    /\ threads = NoThreads
    /\ ppo = NoPpo
    /\ chain = NoChain

\* the device is attached: ubi_read_volume_table
ReadVolumeTable ==
    /\ call = NoCall
    /\ LET r == ubi_read_volume_table_recs(lvol_tables, bad_blocks,
                                           inuse_in_mask)
       IN /\ peb_map' = r.map
          /\ ret' = r.ret
          /\ lvol_tables' = r.tables
          /\ call' = [op |-> "attach", check |-> r.check,
                      found |-> lvol_tables, stage |-> r.stage,
                      built |-> r.built]
    /\ old_map' = peb_map
    /\ UNCHANGED <<pc, budget, bad_blocks, inuse_in_mask, threads, ppo, chain,
                   lvars>>

NextAttach == ReadVolumeTable

SpecAttach == InitAttach /\ [][NextAttach]_vars

\* two records of the PEB table have a PEB in common
RunsOverlap(ptbl) ==
    \E i, j \in 1 .. Len(ptbl) :
        /\ i < j
        /\ ptbl[i].peb < ptbl[j].peb + ptbl[j].num
        /\ ptbl[j].peb < ptbl[i].peb + ptbl[i].num

\* the number of PEBs the in-use records of the PEB table give a volume
RECURSIVE MappedPebs(_, _, _)
MappedPebs(ptbl, vol_id, i) ==
    IF i > Len(ptbl)
    THEN 0
    ELSE MappedPebs(ptbl, vol_id, i + 1) +
             (IF ptbl[i].vol_id = vol_id /\ InUseRecord(ptbl[i])
              THEN ptbl[i].num ELSE 0)

(***************************************************************************)
(* C21: vtbl_check does not return 0 for tables in which two records of    *)
(* the PEB table overlap in PEB space, or in which the PEBs the PEB table  *)
(* gives a volume are not as many as reserved_pebs of the volume in the    *)
(* volume table, or in which a record of the PEB table has a flag outside  *)
(* the allowed ones.                                                       *)
(***************************************************************************)
C21_CheckRejectsBadTables ==
    LET rejected ==
            \/ RunsOverlap(call.found.ptbl)
            \/ \E vol_id \in UserVolIds :
                  MappedPebs(call.found.ptbl, vol_id, 1) #
                      call.found.vtbl[vol_id]
            \/ \E i \in 1 .. Len(call.found.ptbl) :
                  call.found.ptbl[i].flags \ AllowedFlags(inuse_in_mask) # {}
    IN (call.op = "attach" /\ call.found.written /\ rejected) =>
           call.check # 0

\* the PEB map agrees with reserved_pebs of a volume
ConsistentVolume(map, vol_id, vol_reserved_pebs) ==
    /\ ubi_pmap_vol_peb_count(map, vol_id) = vol_reserved_pebs
    /\ \A lnum \in 0 .. (vol_reserved_pebs - 1) :
          ubi_pmap_lookup_pnum(map, vol_id, lnum) >= 0

(***************************************************************************)
(* C22: when an attach has returned 0, every volume whose record in the    *)
(* volume table taken has reserved_pebs > 0 has exactly reserved_pebs PEBs *)
(* in the PEB map and each of its LEBs 0 .. reserved_pebs - 1 is found by  *)
(* ubi_pmap_lookup_pnum; an attach for which this is not so, a volume      *)
(* without any PEB included, returns an error.                             *)
(***************************************************************************)
C22_AttachedVolumesConsistent ==
    (call.op = "attach" /\ ret = 0) =>
        \A vol_id \in UserVolIds :
            lvol_tables.vtbl[vol_id] > 0 =>
                ConsistentVolume(peb_map, vol_id, lvol_tables.vtbl[vol_id])

\* the volumes that have PEBs in use in the PEB map and an empty record in
\* the volume table
StaleVolumes(map, vtbl) ==
    {vol_id \in UserVolIds :
        vtbl[vol_id] = 0 /\ ubi_pmap_vol_peb_count(map, vol_id) > 0}

LayoutRuns(ptbl) ==
    {<<ptbl[i].peb + k, ptbl[i].leb + k>> :
        <<i, k>> \in {ik \in (1 .. Len(ptbl)) \X (0 .. PebCount) :
            /\ ptbl[ik[1]].vol_id = UBI_LAYOUT_VOLUME_ID
            /\ ik[2] < ptbl[ik[1]].num}}

(***************************************************************************)
(* C24: an attach that finds no tables on the device and has found the     *)
(* PEBs of the layout volume returns 0 with tables in which every record   *)
(* of the volume table is empty and the records of the PEB table give      *)
(* exactly the PEBs of the layout volume, each with its LEB, none of them  *)
(* bad, as many as the layout volume has; no user volume has a PEB.        *)
(***************************************************************************)
C24_BootstrapTables ==
    (/\ call.op = "attach"
     /\ ~call.found.written
     /\ call.stage # "init_layout_volume") =>
        /\ ret = 0
        /\ lvol_tables.written
        /\ \A vol_id \in UserVolIds : lvol_tables.vtbl[vol_id] = 0
        /\ LayoutRuns(lvol_tables.ptbl) =
               {<<p, peb_map[p].lnum>> :
                   p \in {q \in PebIds :
                             /\ peb_map[q].vol_id = UBI_LAYOUT_VOLUME_ID
                             /\ peb_map[q].inuse
                             /\ ~peb_map[q].bad}}
        /\ Cardinality(LayoutRuns(lvol_tables.ptbl)) = lvol_reserved_pebs
        /\ \A vol_id \in UserVolIds :
              ubi_pmap_vol_peb_count(peb_map, vol_id) = 0

(***************************************************************************)
(* C25: every call of ubi_pmap_resize_volume returns, whatever the map it  *)
(* is made on: the scan of the shrink branch finds the entry it looks for. *)
(***************************************************************************)
C25_ResizeTerminates ==
    call.op = "resize" => pc = "ready"

(***************************************************************************)
(* Two callers in the PMAP functions at the same time.  The functions take *)
(* no lock (pmap.c: "TODO - Mutex protection of the PMAP?"), so each       *)
(* caller runs its function statement by statement on the shared peb_map:  *)
(* a step is one pass of a loop body, and the test of an entry and the     *)
(* assignments that follow it are two steps.  Caller t works on user       *)
(* volume t.                                                               *)
(***************************************************************************)
\* the maps the callers start on: each user volume resized to 0, 1 or 2 PEBs
RaceStartMaps ==
    {ubi_pmap_resize_volume(
         ubi_pmap_resize_volume([pnum \in PebIds |-> ZeroPmap], 0,
                                n[1]).map, 1, n[2]).map :
        n \in (0 .. 2) \X (0 .. 2)}

InitRace ==
    /\ peb_map \in RaceStartMaps
    /\ call = NoCall
    /\ ret = 0
    /\ old_map = peb_map
    /\ pc = "ready"
    /\ budget = 0
    /\ LayoutIdle
    /\ lvol_tables = NoTables
    /\ bad_blocks = {}
    /\ inuse_in_mask = TRUE
    /\ threads = NoThreads
    /\ ppo = NoPpo
    /\ chain = NoChain

RaceUnchanged == UNCHANGED <<call, ret, old_map, pc, budget, lvars,
                             lvol_tables, bad_blocks, inuse_in_mask, ppo,
                             chain>>

\* caller t enters ubi_pmap_resize_volume for its volume
RaceCallResize(t) ==
    /\ threads[t].at = "idle"
    /\ \E reserved_pebs \in ReservedPebs :
         threads' = [threads EXCEPT ![t] =
             [@ EXCEPT !.op = "resize",
                       !.reserved_pebs = reserved_pebs,
                       !.pnum = ubi_pmap_vol_reserved_area(t).first_peb,
                       !.lnum = 0,
                       !.at = IF reserved_pebs = 0 THEN "delete"
                                                   ELSE "count"]]
    /\ UNCHANGED peb_map
    /\ RaceUnchanged

\* caller t enters ubi_pmap_markbad_replace for a PEB its volume uses
RaceCallMarkbad(t) ==
    /\ threads[t].at = "idle"
    /\ \E pnum \in PebIds :
         /\ peb_map[pnum].vol_id = t
         /\ peb_map[pnum].inuse
         /\ threads' = [threads EXCEPT ![t] =
               [@ EXCEPT !.op = "markbad", !.target = pnum, !.at = "mark"]]
    /\ UNCHANGED peb_map
    /\ RaceUnchanged

\* one pass of the loop that deletes the mappings of the volume
RaceDelete(t) ==
    LET th == threads[t]
    IN /\ th.at = "delete"
       /\ IF th.pnum > ubi_pmap_vol_reserved_area(t).last_peb
          THEN /\ threads' = [threads EXCEPT ![t].at = "done"]
               /\ UNCHANGED peb_map
          ELSE /\ peb_map' = IF peb_map[th.pnum].vol_id = t
                             THEN [peb_map EXCEPT ![th.pnum] = ZeroPmap]
                             ELSE peb_map
               /\ threads' = [threads EXCEPT ![t].pnum = th.pnum + 1]
       /\ RaceUnchanged

\* one pass of the loop that counts the PEBs the volume already has, and
\* after the last pass the choice between growing and shrinking
RaceCount(t) ==
    LET th == threads[t]
        area == ubi_pmap_vol_reserved_area(t)
    IN /\ th.at = "count"
       /\ IF th.pnum > area.last_peb
          THEN threads' = [threads EXCEPT ![t] =
                   IF th.lnum < th.reserved_pebs
                   THEN [@ EXCEPT !.at = "grow_test",
                                  !.pnum = area.first_peb]
                   ELSE IF th.lnum > th.reserved_pebs
                   THEN [@ EXCEPT !.at = "shrink", !.pnum = area.last_peb]
                   ELSE [@ EXCEPT !.at = "done"]]
          ELSE threads' = [threads EXCEPT ![t] =
                   [@ EXCEPT !.pnum = th.pnum + 1,
                             !.lnum = IF /\ peb_map[th.pnum].vol_id = t
                                         /\ peb_map[th.pnum].inuse
                                         /\ ~peb_map[th.pnum].bad
                                      THEN th.lnum + 1
                                      ELSE th.lnum]]
       /\ UNCHANGED peb_map
       /\ RaceUnchanged

\* the "add more" loop: if (!pmap->inuse && !pmap->bad)
RaceGrowTest(t) ==
    LET th == threads[t]
    IN /\ th.at = "grow_test"
       /\ threads' = [threads EXCEPT ![t] =
            IF th.pnum > ubi_pmap_vol_reserved_area(t).last_peb
            THEN [@ EXCEPT !.at = "done"]
            ELSE IF ~peb_map[th.pnum].inuse /\ ~peb_map[th.pnum].bad
            THEN [@ EXCEPT !.at = "grow_write"]
            ELSE [@ EXCEPT !.pnum = th.pnum + 1]]
       /\ UNCHANGED peb_map
       /\ RaceUnchanged

\* the "add more" loop: the assignments to the entry found free
RaceGrowWrite(t) ==
    LET th == threads[t]
    IN /\ th.at = "grow_write"
       /\ peb_map' = [peb_map EXCEPT ![th.pnum] =
              [vol_id |-> t, lnum |-> th.lnum, inuse |-> TRUE,
               bad |-> @.bad]]
       /\ threads' = [threads EXCEPT ![t] =
              [@ EXCEPT !.took = th.took \cup {th.pnum},
                        !.lnum = th.lnum + 1,
                        !.pnum = th.pnum + 1,
                        !.at = IF th.lnum + 1 = th.reserved_pebs
                               THEN "done" ELSE "grow_test"]]
       /\ RaceUnchanged

\* one pass of the while (true) loop that removes PEBs from the logical end
RaceShrink(t) ==
    LET th == threads[t]
        area == ubi_pmap_vol_reserved_area(t)
        found == /\ peb_map[th.pnum].vol_id = t
                 /\ peb_map[th.pnum].lnum = th.lnum - 1
                 /\ peb_map[th.pnum].inuse
                 /\ ~peb_map[th.pnum].bad
        prev == IF th.pnum - 1 < area.first_peb THEN area.last_peb
                                                ELSE th.pnum - 1
    IN /\ th.at = "shrink"
       /\ peb_map' = IF found
                     THEN [peb_map EXCEPT ![th.pnum].inuse = FALSE]
                     ELSE peb_map
       /\ threads' = [threads EXCEPT ![t] =
              IF found /\ th.lnum - 1 = th.reserved_pebs
              THEN [@ EXCEPT !.lnum = th.lnum - 1, !.at = "done"]
              ELSE [@ EXCEPT !.lnum = IF found THEN th.lnum - 1 ELSE th.lnum,
                             !.pnum = prev]]
       /\ RaceUnchanged

\* ubi_pmap_markbad_replace up to the search: need_replacment, pmap->bad = 1,
\* pmap->inuse = 0
RaceMark(t) ==
    LET th == threads[t]
        pmap == peb_map[th.target]
    IN /\ th.at = "mark"
       /\ peb_map' = [peb_map EXCEPT ![th.target].bad = TRUE,
                                     ![th.target].inuse = FALSE]
       /\ threads' = [threads EXCEPT ![t] =
              IF pmap.inuse /\ ~pmap.bad
              THEN [@ EXCEPT !.at = "replace_test",
                       !.pnum = ubi_pmap_vol_reserved_area(pmap.vol_id).first_peb]
              ELSE [@ EXCEPT !.at = "done"]]
       /\ RaceUnchanged

\* the search for a replacment: if (!replacment_pmap->inuse && ...->bad)
RaceReplaceTest(t) ==
    LET th == threads[t]
        pmap == peb_map[th.target]
    IN /\ th.at = "replace_test"
       /\ threads' = [threads EXCEPT ![t] =
            IF th.pnum > ubi_pmap_vol_reserved_area(pmap.vol_id).last_peb
            THEN [@ EXCEPT !.at = "done"]
            ELSE IF ~peb_map[th.pnum].inuse /\ ~peb_map[th.pnum].bad
            THEN [@ EXCEPT !.at = "replace_write"]
            ELSE [@ EXCEPT !.pnum = th.pnum + 1]]
       /\ UNCHANGED peb_map
       /\ RaceUnchanged

\* the search for a replacment: the assignments to the entry found free
RaceReplaceWrite(t) ==
    LET th == threads[t]
        pmap == peb_map[th.target]
    IN /\ th.at = "replace_write"
       /\ peb_map' = [peb_map EXCEPT ![th.pnum] =
              [vol_id |-> pmap.vol_id, lnum |-> pmap.lnum, inuse |-> TRUE,
               bad |-> @.bad]]
       /\ threads' = [threads EXCEPT ![t] =
              [@ EXCEPT !.took = th.took \cup {th.pnum}, !.at = "done"]]
       /\ RaceUnchanged

NextRace ==
    \E t \in UserVolIds :
        \/ RaceCallResize(t)
        \/ RaceCallMarkbad(t)
        \/ RaceDelete(t)
        \/ RaceCount(t)
        \/ RaceGrowTest(t)
        \/ RaceGrowWrite(t)
        \/ RaceShrink(t)
        \/ RaceMark(t)
        \/ RaceReplaceTest(t)
        \/ RaceReplaceWrite(t)

SpecRace == InitRace /\ [][NextRace]_vars

\* the map after the call of caller t made alone on map
CallAlone(map, t) ==
    IF threads[t].op = "resize"
    THEN ubi_pmap_resize_volume(map, t, threads[t].reserved_pebs).map
    ELSE ubi_pmap_markbad_replace(map, threads[t].target).map

InFlight(t) == threads[t].at \notin {"idle", "done"}

(***************************************************************************)
(* C26: the calls of the two callers do not interleave: the callers are    *)
(* never both inside a PMAP function, and when both calls have returned no *)
(* PEB was taken by both and the map is the one that one call after the    *)
(* other, in one of the two orders, gives.                                 *)
(***************************************************************************)
C26_CallsSerialized ==
    /\ ~(InFlight(0) /\ InFlight(1))
    /\ (threads[0].at = "done" /\ threads[1].at = "done") =>
          /\ threads[0].took \cap threads[1].took = {}
          /\ peb_map \in {CallAlone(CallAlone(old_map, 0), 1),
                          CallAlone(CallAlone(old_map, 1), 0)}

\* the operation made last wrote tables and was not cut short
CommitDone ==
    /\ lcall.op \in {"commit", "attach"}
    /\ lcall.complete
    /\ lcall.ops # <<>>
    /\ lret = 0

(***************************************************************************)
(* C27: after a change of the tables that returned 0 (ubi_change_ptbl,     *)
(* ubi_change_vtbl_record, ubi_vtbl_rename_volumes, or the create_vtbl     *)
(* calls of an attach) the first LEB of each copy holds a volume table and *)
(* the LEB after it a PEB table.                                           *)
(***************************************************************************)
C27_CopiesKeepTheirLayout ==
    CommitDone =>
        \A copy \in Copies :
            /\ flash[copy * UBI_LAYOUT_VOLUME_EBS_PER_COPY].kind = "vtbl"
            /\ flash[copy * UBI_LAYOUT_VOLUME_EBS_PER_COPY + 1].kind = "ptbl"

(***************************************************************************)
(* The PEB Payload Offset (PPO) page, as the design notes describe it: a   *)
(* byte of the page stands for +1 of offset, the page is updated by        *)
(* writing it again without erasure, and a byte read back is put in a      *)
(* category by its bits.                                                   *)
(***************************************************************************)
ByteValues == 0 .. 255

RECURSIVE PopCount(_)
PopCount(b) == IF b = 0 THEN 0 ELSE (b % 2) + PopCount(b \div 2)

RECURSIVE BitAnd(_, _)
BitAnd(a, b) ==
    IF a = 0 \/ b = 0
    THEN 0
    ELSE (a % 2) * (b % 2) + 2 * BitAnd(a \div 2, b \div 2)

\* "PPO byte values can be categorized": the values of the rows of the list
\* that name the byte, row by row
PPOByteCategories(b) ==
    (IF b = 0 THEN {"zero"} ELSE {})
    \cup (IF PopCount(b) = 1 THEN {"zero"} ELSE {})
    \cup (IF PopCount(b) = 2 THEN {"zero"} ELSE {})
    \cup (IF PopCount(b) \in {3, 4, 5, 6} THEN {"error"} ELSE {})
    \cup (IF b \in {252, 249} \/ PopCount(b) = 7 THEN {"one"} ELSE {})
    \cup (IF PopCount(b) = 7 THEN {"one"} ELSE {})
    \cup (IF b = 255 THEN {"one"} ELSE {})

\* the offset a page holds: the number of bytes read as zero before the
\* first byte that is not
RECURSIVE PpoValue(_)
PpoValue(page) ==
    IF page = <<>> \/ PPOByteCategories(Head(page)) # {"zero"}
    THEN 0
    ELSE 1 + PpoValue(Tail(page))

\* the page contents that indicate a +k offset
PpoPageFor(k) == [i \in 1 .. PpoBytes |-> IF i <= k THEN 0 ELSE 255]

ErasedPage == [i \in 1 .. PpoBytes |-> 255]

\* a write that replaces the contents of the page
FlashWrite_Overwrites(old, new) == new

\* a write to a page that is not erased first: bits go from 1 to 0 only
FlashWrite(old, new) == [i \in 1 .. PpoBytes |-> BitAnd(old[i], new[i])]

InitPPO ==
    /\ peb_map = [pnum \in PebIds |-> ZeroPmap]
    /\ call = NoCall
    /\ ret = 0
    /\ old_map = [pnum \in PebIds |-> ZeroPmap]
    /\ pc = "ready"
    /\ budget = 0
    /\ LayoutIdle
    /\ lvol_tables = NoTables
    /\ bad_blocks = {}
    /\ inuse_in_mask = TRUE
    /\ threads = NoThreads
    /\ chain = NoChain
    /\ \E b \in ByteValues :
          ppo = [op |-> "none", page |-> ErasedPage, old_page |-> ErasedPage,
                 k |-> 0, byte |-> b, categories |-> {}]

PpoUnchanged == UNCHANGED <<pvars, lvars, lvol_tables, bad_blocks,
                            inuse_in_mask, threads, chain>>

\* the byte is read and categorized
PpoReadByte ==
    /\ ppo.categories = {}
    /\ ppo' = [ppo EXCEPT !.categories = PPOByteCategories(ppo.byte)]
    /\ PpoUnchanged

\* the payload of the PEB moves to offset +k: the PPO page is written
PpoMove ==
    /\ \E k \in 0 .. PpoBytes :
          ppo' = [ppo EXCEPT !.op = "move", !.k = k,
                             !.old_page = ppo.page,
                             !.page = FlashWrite(ppo.page, PpoPageFor(k))]
    /\ PpoUnchanged

\* PPO reset: the PEB is erased
PpoErase ==
    /\ ppo' = [ppo EXCEPT !.op = "erase", !.old_page = ppo.page,
                          !.page = ErasedPage]
    /\ PpoUnchanged

NextPPO == PpoReadByte \/ PpoMove \/ PpoErase

SpecPPO == InitPPO /\ [][NextPPO]_vars

(***************************************************************************)
(* C28: a byte read from the PPO page is put in one category, given by the *)
(* number of its bits that are set: 0, 1 or 2 bits read as zero, 6, 7 or 8 *)
(* bits read as one, 3, 4 or 5 bits are invalid PPO data.                  *)
(***************************************************************************)
C28_ByteCategoryByBitCount ==
    ppo.categories # {} =>
        ppo.categories =
            IF PopCount(ppo.byte) <= 2 THEN {"zero"}
            ELSE IF PopCount(ppo.byte) >= 6 THEN {"one"}
            ELSE {"error"}

(***************************************************************************)
(* C29: the offset the PPO page holds gets smaller only when the PEB is    *)
(* erased: whatever offset a move writes, the page holds at least the      *)
(* offset it held before.                                                  *)
(***************************************************************************)
C29_PpoOnlyGrowsUntilErase ==
    PpoValue(ppo.page) < PpoValue(ppo.old_page) =>
        /\ ppo.op = "erase"
        /\ PpoValue(ppo.page) = 0

\* a move to a smaller offset than the page holds was made
C29_Witness ==
    /\ ppo.op = "move"
    /\ ppo.k < PpoValue(ppo.old_page)
    /\ PpoValue(ppo.page) = PpoValue(ppo.old_page)

(***************************************************************************)
(* The list of PEBs of a LEB, as the design document describes it: a PEB   *)
(* holds an array of LLP headers, a header holds the NLP (the next PEB of  *)
(* the list, or null in the PEB that holds the payload), the UPP (the      *)
(* update partner) and the USN.  An update of the list writes a header in  *)
(* the last PEB of the list, whose NLP is the new PEB, then a header in    *)
(* the new PEB, both with the same USN.                                    *)
(***************************************************************************)
ChainPebs == 0 .. (ChainPebCount - 1)

LlpHeader(nlp, upp, usn) == [nlp |-> nlp, upp |-> upp, usn |-> usn]

\* the USN check that finds every header good
PartnerUsnMatches_Always(headers, h) == TRUE

\* the USN check of a header: the update partner holds a header of the same
\* USN
PartnerUsnMatches(headers, h) ==
    \E j \in 1 .. Len(headers[h.upp]) : headers[h.upp][j].usn = h.usn

\* the header of the PEB that is used: the last of the array, and when its
\* USN check fails the one before it; 0 when the PEB has none
RECURSIVE ActiveIdx(_, _, _)
ActiveIdx(headers, peb, i) ==
    IF i = 0
    THEN 0
    ELSE IF PartnerUsnMatches(headers, headers[peb][i])
    THEN i
    ELSE ActiveIdx(headers, peb, i - 1)

\* the list is followed from peb to the PEB that holds the payload
RECURSIVE FollowList(_, _, _)
FollowList(headers, peb, fuel) ==
    LET i == ActiveIdx(headers, peb, Len(headers[peb]))
    IN IF fuel = 0 \/ i = 0 \/ headers[peb][i].nlp = {}
       THEN peb
       ELSE FollowList(headers, CHOOSE n \in headers[peb][i].nlp : TRUE,
                       fuel - 1)

PayloadPeb(headers, leb) == FollowList(headers, leb, ChainPebCount)

\* a LEB mapped to the PEB of its number: the PEB holds its first header
InitChain ==
    /\ peb_map = [pnum \in PebIds |-> ZeroPmap]
    /\ call = NoCall
    /\ ret = 0
    /\ old_map = [pnum \in PebIds |-> ZeroPmap]
    /\ pc = "ready"
    /\ budget = 0
    /\ LayoutIdle
    /\ lvol_tables = NoTables
    /\ bad_blocks = {}
    /\ inuse_in_mask = TRUE
    /\ threads = NoThreads
    /\ ppo = NoPpo
    /\ \E leb \in ChainPebs :
          chain = [leb |-> leb,
                   headers |-> [p \in ChainPebs |->
                                  IF p = leb
                                  THEN <<LlpHeader({}, leb, 0)>>
                                  ELSE <<>>],
                   usn |-> 1, txn |-> NoTxn, op |-> "none", lost |-> FALSE,
                   pre |-> leb, read |-> leb, budget |-> MaxChainOps]

ChainUnchanged == UNCHANGED <<pvars, lvars, lvol_tables, bad_blocks,
                              inuse_in_mask, threads, ppo>>

\* the first update of the pair: the NLP of the last PEB of the list is set
\* to the new PEB
ChainUpdateFirst ==
    /\ ~chain.txn.on
    /\ chain.budget > 0
    /\ LET a == PayloadPeb(chain.headers, chain.leb)
       IN \E b \in ChainPebs :
             /\ chain.headers[b] = <<>>
             /\ chain' = [chain EXCEPT
                   !.headers[a] = Append(@, LlpHeader({b}, b, chain.usn)),
                   !.txn = [on |-> TRUE, a |-> a, b |-> b,
                            usn |-> chain.usn],
                   !.op = "first", !.lost = FALSE, !.pre = a,
                   !.budget = @ - 1]
    /\ ChainUnchanged

\* the second update of the pair: the header of the new PEB
ChainUpdateSecond ==
    /\ chain.txn.on
    /\ chain' = [chain EXCEPT
          !.headers[chain.txn.b] =
              Append(@, LlpHeader({}, chain.txn.a, chain.txn.usn)),
          !.txn.on = FALSE, !.op = "second", !.usn = @ + 1]
    /\ ChainUnchanged

\* power outage between the updates of the two partners
ChainPowerOutage ==
    /\ chain.txn.on
    /\ chain' = [chain EXCEPT !.txn.on = FALSE, !.op = "outage",
                              !.lost = TRUE, !.usn = @ + 1]
    /\ ChainUnchanged

\* the list is followed to find the PEB that holds the data of the LEB
ChainRead ==
    /\ ~chain.txn.on
    /\ chain.op # "read"
    /\ chain' = [chain EXCEPT !.op = "read",
                              !.read = PayloadPeb(chain.headers, chain.leb)]
    /\ ChainUnchanged

NextChain ==
    ChainUpdateFirst \/ ChainUpdateSecond \/ ChainPowerOutage \/ ChainRead

SpecChain == InitChain /\ [][NextChain]_vars

NormaliseRecords ==
    [peb : PebIds, leb : 0 .. 2, num : {1}, vol_id : UserVolIds,
     flags : {{"UBI_PEB_INUSE"}, {"UBI_PEB_BAD"}}]

NormalisePtbls ==
    {<<pr1, pr2, pr3>> : pr1, pr2, pr3 \in NormaliseRecords}

InitNormalise ==
    /\ peb_map = [pnum \in PebIds |-> ZeroPmap]
    /\ call = NoCall
    /\ ret = 0
    /\ old_map = [pnum \in PebIds |-> ZeroPmap]
    /\ pc = "ready"
    /\ budget = 0
    /\ LayoutIdle
    /\ \E ptbl \in NormalisePtbls :
          lvol_tables = [written |-> FALSE, vtbl |-> EmptyVtblRecs,
                         ptbl |-> ptbl]
    /\ bad_blocks = {}
    /\ inuse_in_mask = TRUE
    /\ threads = NoThreads
    /\ ppo = NoPpo
    /\ chain = NoChain

\* the table is normalised, as create_empty_lvol does before it writes it
NormalisePtbl ==
    /\ call = NoCall
    /\ lvol_tables' = [lvol_tables EXCEPT
                          !.ptbl = normalise_ptbl(lvol_tables.ptbl)]
    /\ call' = [op |-> "normalise", found |-> lvol_tables]
    /\ UNCHANGED <<peb_map, ret, old_map, pc, budget, lvars, bad_blocks,
                   inuse_in_mask, threads, ppo, chain>>

NextNormalise == NormalisePtbl

SpecNormalise == InitNormalise /\ [][NextNormalise]_vars

\* the (vol_id, PEB, LEB) mappings the in-use records of a table describe
PtblMappings(ptbl) ==
    {<<ptbl[ik[1]].vol_id, ptbl[ik[1]].peb + ik[2], ptbl[ik[1]].leb + ik[2]>> :
        ik \in {x \in (1 .. Len(ptbl)) \X (0 .. PebCount) :
                   /\ InUseRecord(ptbl[x[1]])
                   /\ x[2] < ptbl[x[1]].num}}

\* two in-use records that concat_pmap_record would combine
AdjacentCompatible(pr1, pr2) ==
    /\ InUseRecord(pr1)
    /\ InUseRecord(pr2)
    /\ pr1.vol_id = pr2.vol_id
    /\ pr1.flags = pr2.flags
    /\ \/ (pr2.peb = pr1.peb + pr1.num /\ pr2.leb = pr1.leb + pr1.num)
       \/ (pr1.peb = pr2.peb + pr2.num /\ pr1.leb = pr2.leb + pr2.num)

(***************************************************************************)
(* C31: after normalise_ptbl no two in-use records of the table are        *)
(* compatible and adjacent (same vol_id and flags, PEBs and LEBs both      *)
(* contiguous), and the in-use records describe the (vol_id, PEB, LEB)     *)
(* mappings they described before.                                         *)
(***************************************************************************)
C31_NormalisedTable ==
    call.op = "normalise" =>
        /\ \A i, j \in 1 .. Len(lvol_tables.ptbl) :
              i # j => ~AdjacentCompatible(lvol_tables.ptbl[i],
                                           lvol_tables.ptbl[j])
        /\ PtblMappings(lvol_tables.ptbl) = PtblMappings(call.found.ptbl)

(***************************************************************************)
(* C32: when the PEB table made from the PEB map is written and the device *)
(* attached again, every PEB the PEB map had flagged bad is flagged bad    *)
(* and not in use in the PEB map the attach builds.                        *)
(***************************************************************************)
C32_BadSurvivesReattach ==
    (pc = "ready" /\ RecoverPmap(peb_map).ret = 0) =>
        \A p \in PebIds :
            peb_map[p].bad =>
                /\ RecoverPmap(peb_map).map[p].bad
                /\ ~RecoverPmap(peb_map).map[p].inuse

(***************************************************************************)
(* The layout volume on devices whose reserved area is larger than the     *)
(* layout volume.  A geometry gives UBI_LAYOUT_VOLUME_RESERVED_EBS         *)
(* (reserved_ebs) and UBI_LAYOUT_VOLUME_EBS (lvol_ebs) of a build; the     *)
(* functions below are those of the attach with the geometry made a        *)
(* parameter.                                                              *)
(***************************************************************************)
LayoutGeometries ==
    {g \in [reserved_ebs : 1 .. PebCount,
            lvol_ebs : 1 .. UBI_LAYOUT_VOLUME_EBS] :
        g.lvol_ebs <= g.reserved_ebs}

\* ubi_pmap_vol_reserved_area
GeomArea(g, vol_id) ==
    IF vol_id = UBI_LAYOUT_VOLUME_ID
    THEN 0 .. (g.reserved_ebs - 1)
    ELSE g.reserved_ebs .. (PebCount - 1)

\* ubi_pmap_markbad_replace
ubi_pmap_markbad_replace_geom(g, map, pnum) ==
    LET need_replacment == map[pnum].inuse /\ ~map[pnum].bad
        marked == [map EXCEPT ![pnum].bad = TRUE, ![pnum].inuse = FALSE]
        free == {r \in GeomArea(g, map[pnum].vol_id) :
                    ~marked[r].inuse /\ ~marked[r].bad}
    IN IF need_replacment
       THEN IF free # {}
            THEN [map |-> [marked EXCEPT ![Min(free)] =
                              [vol_id |-> map[pnum].vol_id,
                               lnum |-> map[pnum].lnum,
                               inuse |-> TRUE,
                               bad |-> @.bad]],
                  ret |-> Min(free)]
            ELSE [map |-> marked, ret |-> -ENOMEM]
       ELSE [map |-> marked, ret |-> pnum]

\* ubi_pmap_lookup_pnum for the layout volume
LayoutPebOf(g, map, lnum) ==
    LET hits == {pnum \in GeomArea(g, UBI_LAYOUT_VOLUME_ID) :
                    /\ map[pnum].vol_id = UBI_LAYOUT_VOLUME_ID
                    /\ map[pnum].lnum = lnum
                    /\ map[pnum].inuse
                    /\ ~map[pnum].bad}
    IN IF hits = {} THEN -1 ELSE Min(hits)

\* the loop of init_layout_volume that skips the bad PEBs without
\* ubi_pmap_markbad_replace
RECURSIVE ProbeLayoutPebsGeom_SkipsBad(_, _, _, _, _, _)
ProbeLayoutPebsGeom_SkipsBad(g, map, bad_pebs, pnum, lnum, err) ==
    IF pnum >= PebCount
    THEN [map |-> map, ret |-> err, last |-> pnum - 1]
    ELSE IF pnum \in bad_pebs
    THEN ProbeLayoutPebsGeom_SkipsBad(g, map, bad_pebs, pnum + 1, lnum, 0)
    ELSE IF lnum + 1 = g.lvol_ebs
    THEN [map |-> map, ret |-> 0, last |-> pnum]
    ELSE ProbeLayoutPebsGeom_SkipsBad(g, map, bad_pebs, pnum + 1, lnum + 1, 0)

\* the loop of init_layout_volume that looks for the first good PEBs; last
\* is the last PEB probed
RECURSIVE ProbeLayoutPebsGeom(_, _, _, _, _, _)
ProbeLayoutPebsGeom(g, map, bad_pebs, pnum, lnum, err) ==
    IF pnum >= PebCount
    THEN [map |-> map, ret |-> err, last |-> pnum - 1]
    ELSE IF pnum \in bad_pebs
    THEN LET r == ubi_pmap_markbad_replace_geom(g, map, pnum)
         IN IF r.ret < 0
            THEN [map |-> r.map, ret |-> r.ret, last |-> pnum]
            ELSE ProbeLayoutPebsGeom(g, r.map, bad_pebs, pnum + 1, lnum,
                                     r.ret)
    ELSE IF lnum + 1 = g.lvol_ebs
    THEN [map |-> map, ret |-> 0, last |-> pnum]
    ELSE ProbeLayoutPebsGeom(g, map, bad_pebs, pnum + 1, lnum + 1, 0)

\* init_layout_volume on the PEB map of ubi_pmap_init: the resize is the
\* "add more" loop over the reserved area
init_layout_volume_geom(g, bad_pebs) ==
    ProbeLayoutPebsGeom(
        g,
        ResizeGrow([pnum \in PebIds |-> ZeroPmap], UBI_LAYOUT_VOLUME_ID,
                   g.lvol_ebs, 0, g.reserved_ebs - 1, 0),
        bad_pebs, 0, 0, 0)

InitLayoutInit ==
    /\ peb_map = [pnum \in PebIds |-> ZeroPmap]
    /\ \E g \in LayoutGeometries : call = [op |-> "power_on", g |-> g]
    /\ ret = 0
    /\ old_map = [pnum \in PebIds |-> ZeroPmap]
    /\ pc = "ready"
    /\ budget = 0
    /\ LayoutIdle
    /\ lvol_tables = NoTables
    /\ bad_blocks \in SUBSET PebIds
    /\ inuse_in_mask = TRUE
    /\ threads = NoThreads
    /\ ppo = NoPpo
    /\ chain = NoChain

LayoutInitUnchanged == UNCHANGED <<pc, budget, lvars, lvol_tables,
                                   inuse_in_mask, threads, ppo, chain>>

\* the attach up to the end of init_layout_volume
LvAttach ==
    /\ call.op \in {"power_on", "went_bad"}
    /\ LET r == init_layout_volume_geom(call.g, bad_blocks)
       IN /\ peb_map' = r.map
          /\ ret' = r.ret
          /\ call' = [op |-> "lv_attach", g |-> call.g, last |-> r.last,
                      first |-> call.op = "power_on"]
    /\ old_map' = peb_map
    /\ UNCHANGED bad_blocks
    /\ LayoutInitUnchanged

\* while the device is attached a PEB of the layout volume goes bad and is
\* replaced
LvWentBad ==
    /\ call.op \in {"lv_attach", "went_bad"}
    /\ ret >= 0
    /\ \E pnum \in GeomArea(call.g, UBI_LAYOUT_VOLUME_ID) :
          /\ peb_map[pnum].vol_id = UBI_LAYOUT_VOLUME_ID
          /\ peb_map[pnum].inuse
          /\ bad_blocks' = bad_blocks \cup {pnum}
          /\ peb_map' = ubi_pmap_markbad_replace_geom(call.g, peb_map,
                                                      pnum).map
          /\ ret' = ubi_pmap_markbad_replace_geom(call.g, peb_map, pnum).ret
          /\ call' = [op |-> "went_bad", g |-> call.g, pnum |-> pnum]
    /\ old_map' = peb_map
    /\ LayoutInitUnchanged

NextLayoutInit == LvAttach \/ LvWentBad

SpecLayoutInit == InitLayoutInit /\ [][NextLayoutInit]_vars

(***************************************************************************)
(* C33: when init_layout_volume returns 0, every LEB of the layout volume  *)
(* maps to a PEB of the reserved area that was probed and is not bad, and  *)
(* every PEB that was probed and is bad is flagged bad and not in use.     *)
(***************************************************************************)
C33_LayoutVolumeOnGoodPebs ==
    (call.op = "lv_attach" /\ ret = 0) =>
        /\ \A lnum \in 0 .. (call.g.lvol_ebs - 1) :
              /\ LayoutPebOf(call.g, peb_map, lnum)
                     \in GeomArea(call.g, UBI_LAYOUT_VOLUME_ID)
              /\ LayoutPebOf(call.g, peb_map, lnum) <= call.last
              /\ LayoutPebOf(call.g, peb_map, lnum) \notin bad_blocks
        /\ \A pnum \in 0 .. call.last :
              pnum \in bad_blocks =>
                  peb_map[pnum].bad /\ ~peb_map[pnum].inuse

\* the first attach returned 0 after a PEB of the layout volume probed bad
\* and was replaced
C33_Witness ==
    /\ call.op = "lv_attach"
    /\ call.first
    /\ ret = 0
    /\ \E pnum \in 0 .. call.last :
          pnum \in bad_blocks /\ pnum < call.g.lvol_ebs

(***************************************************************************)
(* C34: the LEB-to-PEB mapping of the layout volume that an attach deduces *)
(* by probing is the mapping the device had when it was last in operation, *)
(* whatever the order in which PEBs of the layout volume went bad and were *)
(* replaced.                                                               *)
(***************************************************************************)
C34_DeducedMappingIsLastMapping ==
    (call.op = "lv_attach" /\ ~call.first /\ ret = 0) =>
        \A lnum \in 0 .. (call.g.lvol_ebs - 1) :
            LayoutPebOf(call.g, peb_map, lnum) =
                LayoutPebOf(call.g, old_map, lnum)

(***************************************************************************)
(* C35: under resize and markbad-replace calls alone, the in-use, non-bad  *)
(* entries of each volume carry the LEB numbers 0..k-1, each exactly once  *)
(* (k the number of those entries): no LEB number twice and none missing,  *)
(* also after a replacement that failed and a grow that followed it.       *)
(***************************************************************************)
C35_LebsDense ==
    pc = "ready" =>
        \A vol_id \in VolIds :
            LET held == {p \in PebIds : /\ peb_map[p].inuse
                                        /\ ~peb_map[p].bad
                                        /\ peb_map[p].vol_id = vol_id}
            IN /\ \A p, q \in held :
                     peb_map[p].lnum = peb_map[q].lnum => p = q
               /\ {peb_map[p].lnum : p \in held} =
                      0 .. (Cardinality(held) - 1)

(***************************************************************************)
(* C36: a call of ubi_pmap_allocate_vol_pebs for a volume that returns 0   *)
(* changes no entry that was in use by a different volume: a range that    *)
(* holds such an entry is refused, not taken over.                         *)
(***************************************************************************)
C36_AllocateLeavesOtherVolumes ==
    (call.op = "allocate" /\ ret = 0) =>
        \A p \in PebIds :
            (old_map[p].inuse /\ old_map[p].vol_id # call.vol_id) =>
                peb_map[p] = old_map[p]

(***************************************************************************)
(* C37: when ubi_pmap_markbad_replace of a PEB p in use for (vol, l) finds *)
(* no free PEB and returns the out-of-space error, the map is not rolled   *)
(* back: p is bad and not in use, lookup(vol, l) finds nothing, the volume *)
(* holds one PEB less, and no entry other than p has changed.              *)
(***************************************************************************)
C37_FailedReplaceNotRolledBack ==
    (call.op = "markbad" /\ old_map[call.pnum].inuse /\ ret = -ENOMEM) =>
        LET p == call.pnum
            vol_id == old_map[p].vol_id
            lnum == old_map[p].lnum
        IN /\ peb_map[p].bad
           /\ ~peb_map[p].inuse
           /\ ubi_pmap_lookup_pnum(peb_map, vol_id, lnum) = -1
           /\ ubi_pmap_vol_peb_count(peb_map, vol_id) =
                  ubi_pmap_vol_peb_count(old_map, vol_id) - 1
           /\ \A q \in PebIds \ {p} : peb_map[q] = old_map[q]

(***************************************************************************)
(* C38: ubi_pmap_markbad_replace of a PEB p that is not in use (free, or   *)
(* bad already) returns p, leaves p bad and not in use and changes no      *)
(* other entry; a second call for p returns p again and leaves the map as  *)
(* it is.                                                                  *)
(***************************************************************************)
C38_MarkbadOfUnusedPeb ==
    (call.op = "markbad" /\ ~old_map[call.pnum].inuse) =>
        /\ ret = call.pnum
        /\ peb_map[call.pnum].bad
        /\ ~peb_map[call.pnum].inuse
        /\ \A q \in PebIds \ {call.pnum} : peb_map[q] = old_map[q]
        /\ old_map[call.pnum].bad => peb_map = old_map
        /\ ubi_pmap_markbad_replace(peb_map, call.pnum).ret = call.pnum
        /\ ubi_pmap_markbad_replace(peb_map, call.pnum).map = peb_map

\* a PEB that was marked bad while free has been marked bad once more, while
\* its range has a free PEB and a PEB in use
C38_Witness ==
    /\ call.op = "markbad"
    /\ old_map[call.pnum].bad
    /\ ~old_map[call.pnum].inuse
    /\ ret = call.pnum
    /\ \E q, r \in AreaOf(old_map[call.pnum].vol_id) :
          /\ ~old_map[q].inuse /\ ~old_map[q].bad
          /\ old_map[r].inuse

(***************************************************************************)
(* The PEB table of a device whose table has few slots: the PEB map is     *)
(* changed by resize and markbad-replace calls, and ubi_change_ptbl writes *)
(* the table made from it to both copies.                                  *)
(***************************************************************************)
\* ubi->ptbl_slots: leb_size / UBI_PTBL_RECORD_SIZE of a device with small
\* eraseblocks
ptbl_slots == 2

\* ubi_change_ptbl from the PEB map on: the return value, and the flash
\* operations made.  add_ptbl_record refuses the callback that finds
\* ptbl_idx >= ptbl_slots, the extract returns its error and ubi_change_ptbl
\* returns it before the loop over the copies.
ubi_change_ptbl_from_map(map, ptbl) ==
    IF Len(ubi_pmap_extract_vol_pebs(map)) > ptbl_slots
    THEN [ret |-> -ENOSPC, ops |-> <<>>]
    ELSE [ret |-> 0, ops |-> ubi_change_ptbl(ptbl)]

InitPtblCommit ==
    /\ peb_map = [pnum \in PebIds |-> ZeroPmap]
    /\ call = NoCall
    /\ ret = 0
    /\ old_map = [pnum \in PebIds |-> ZeroPmap]
    /\ pc = "ready"
    /\ budget = MaxOps
    /\ flash = [l \in LayoutLebs |->
                   IF l % UBI_LAYOUT_VOLUME_EBS_PER_COPY = 0
                   THEN Image("vtbl", 1, TRUE)
                   ELSE Image("ptbl", 1, TRUE)]
    /\ ubi_vtbl = Image("vtbl", 1, TRUE)
    /\ ubi_ptbl = Image("ptbl", 1, TRUE)
    /\ lpc = "attached"
    /\ lcall = NoCall
    /\ lret = 0
    /\ old_flash = flash
    /\ gen = 2
    /\ lbudget = 0
    /\ OthersIdle

\* a call of ubi_change_ptbl after the PEB map has changed
PtblCommit ==
    /\ CanCall
    /\ call.op # "change_ptbl"
    /\ LET r == ubi_change_ptbl_from_map(peb_map, Image("ptbl", gen, TRUE))
       IN /\ flash' = ApplyOps(flash, r.ops, Len(r.ops), FALSE)
          /\ lret' = r.ret
          /\ ubi_ptbl' = IF r.ret = 0 THEN Image("ptbl", gen, TRUE)
                         ELSE ubi_ptbl
          /\ lcall' = [op |-> "ubi_change_ptbl", ops |-> r.ops]
    /\ call' = [op |-> "change_ptbl"]
    /\ old_flash' = flash
    /\ old_map' = peb_map
    /\ gen' = gen + 1
    /\ budget' = budget - 1
    /\ UNCHANGED <<peb_map, ret, pc, ubi_vtbl, lpc, lbudget, ovars>>

NextPtblCommit == ResizeVolume \/ MarkbadReplace \/ PtblCommit

SpecPtblCommit == InitPtblCommit /\ [][NextPtblCommit]_vars

\* the number of runs of in-use PEBs of a PEB map: the in-use PEBs that do
\* not continue the run of the PEB before them
InUseRuns(map) ==
    Cardinality({p \in PebIds :
        /\ map[p].inuse
        /\ ~(/\ p - 1 \in PebIds
             /\ map[p - 1].inuse
             /\ map[p - 1].vol_id = map[p].vol_id
             /\ map[p - 1].lnum + 1 = map[p].lnum)})

(***************************************************************************)
(* C39: when the PEB map has more runs than the PEB table has slots,       *)
(* ubi_change_ptbl returns the out-of-space error and makes no unmap and   *)
(* no write: both copies on flash are as they were.                        *)
(***************************************************************************)
C39_TooManyRunsNoWrite ==
    (call.op = "change_ptbl" /\ InUseRuns(peb_map) > ptbl_slots) =>
        /\ lret = -ENOSPC
        /\ lcall.ops = <<>>
        /\ flash = old_flash

(***************************************************************************)
(* ubi_pmap_number_vols.  The body of the if in the for loop is the        *)
(* expression statement next_vol_id < peb_map[i].vol_id, which assigns     *)
(* nothing: the loop over the PEBs leaves next_vol_id as it was.           *)
(***************************************************************************)
RECURSIVE NumberVolsScan(_, _, _, _)
NumberVolsScan(map, i, vol_id, next_vol_id) ==
    IF i >= PebCount
    THEN next_vol_id
    ELSE IF /\ map[i].inuse
            /\ ~map[i].bad
            /\ map[i].vol_id > vol_id
            /\ map[i].vol_id < next_vol_id
    THEN NumberVolsScan(map, i + 1, vol_id, next_vol_id)
    ELSE NumberVolsScan(map, i + 1, vol_id, next_vol_id)

\* the while (true) loop: one pass per volume counted
RECURSIVE NumberVolsLoop(_, _, _)
NumberVolsLoop(map, number, vol_id) ==
    LET next_vol_id == NumberVolsScan(map, 0, vol_id, INT_MAX)
    IN IF next_vol_id = INT_MAX
       THEN number
       ELSE NumberVolsLoop(map, number + 1, next_vol_id)

ubi_pmap_number_vols(map) == NumberVolsLoop(map, 0, 0)

\* check_volume_pmap asks for the number of volumes of the PEB map
NumberVols ==
    /\ CanCall
    /\ call.op # "number_vols"
    /\ ret' = ubi_pmap_number_vols(peb_map)
    /\ call' = [op |-> "number_vols"]
    /\ old_map' = peb_map
    /\ budget' = budget - 1
    /\ UNCHANGED <<peb_map, pc, lvars, ovars>>

NextNumberVols ==
    AllocateVolPebs \/ ResizeVolume \/ MarkbadReplace \/ NumberVols

SpecNumberVols == Init /\ [][NextNumberVols]_vars

(***************************************************************************)
(* C40: ubi_pmap_number_vols returns, for every PEB map, the number of     *)
(* distinct vol_id values of the entries that are in use and not bad, and  *)
(* it returns (the loop ends).                                             *)
(***************************************************************************)
C40_NumberOfVolumes ==
    call.op = "number_vols" =>
        /\ pc = "ready"
        /\ ret = Cardinality({peb_map[p].vol_id :
                     p \in {q \in PebIds : /\ peb_map[q].inuse
                                           /\ ~peb_map[q].bad}})

====
